---- MODULE Spec2Model ----
(***************************************************************************)
(* Model of EnhancedDoxygenCrawler (src/src/enhanced-crawler.ts): the      *)
(* fetch cache, the class listing, the search index and the query engine.  *)
(*                                                                         *)
(* Strings are sequences of tokens (a URL is <<"http", "://docs", "/",     *)
(* "index.html">>, a page text is a sequence of characters), so that       *)
(* concatenation, prefix and substring tests are computed, not assumed.    *)
(* A page body is an opaque HTML text named by a string; Load gives the    *)
(* elements a cheerio selection finds in it.                               *)
(*                                                                         *)
(* Every async method call is a record in calls.  A call runs atomically   *)
(* up to its next await of fetchPage; an await that goes to the network    *)
(* suspends the call (st = "wait") until Respond delivers the response.    *)
(***************************************************************************)
EXTENDS Integers, Sequences, FiniteSets, TLC

VARIABLES
    now,               \* Date.now(), in milliseconds since construction
    cache,             \* this.cache: key -> [content, timestamp]
    searchIndexCache,  \* this.searchIndexCache: key -> SearchIndex
    calls,             \* the method calls in progress or completed
    hist,              \* history of the bodies the network delivered
    server             \* the MCP server: its default site and its tool call

vars == <<now, cache, searchIndexCache, calls, hist, server>>

\* ------------------------------------------------------------------ bounds
MaxCalls == 2          \* call slots (calls that can be in flight together)
MaxTicks == 2          \* clock advances per behaviour
MaxQueryLen == 12      \* longest query a snippet is made for

\* ------------------------------------------------------- program constants
cacheTimeout == 300000          \* 5 * 60 * 1000
searchIndexTimeout == 1800000   \* 30 * 60 * 1000

TickMs == cacheTimeout \div 2

Calls == 1..MaxCalls

\* ----------------------------------------------------------------- strings
Empty == << >>

Concat3(a, b, c) == a \o b \o c

\* haystack.includes(needle) on token sequences
Includes(hay, needle) ==
    \E i \in 1..(Len(hay) - Len(needle) + 1) :
        SubSeq(hay, i, i + Len(needle) - 1) = needle

StartsWith(s, prefix) ==
    Len(s) >= Len(prefix) /\ SubSeq(s, 1, Len(prefix)) = prefix

IsSpace(t) == t \in {" ", "\n"}

\* s.trim()
Trim(s) ==
    IF \A i \in 1..Len(s) : IsSpace(s[i]) THEN Empty
    ELSE SubSeq(s,
           CHOOSE i \in 1..Len(s) :
               ~IsSpace(s[i]) /\ \A j \in 1..(i - 1) : IsSpace(s[j]),
           CHOOSE i \in 1..Len(s) :
               ~IsSpace(s[i]) /\ \A j \in (i + 1)..Len(s) : IsSpace(s[j]))

\* c.toLowerCase() of one character
LowerChar(t) ==
    CASE t = "A" -> "a"
      [] t = "B" -> "b"
      [] t = "C" -> "c"
      [] t = "R" -> "r"
      [] OTHER -> t

\* s.toLowerCase()
Lower(s) == [i \in 1..Len(s) |-> LowerChar(s[i])]

\* s.substring(from, to) for 0 <= from
Substring(s, from, to) ==
    SubSeq(s, from + 1, IF to < Len(s) THEN to ELSE Len(s))

\* hay.indexOf(needle): the 0-based position of the first occurrence, or -1
IndexOf(hay, needle) ==
    LET at == {i \in 1..(Len(hay) - Len(needle) + 1) :
                  SubSeq(hay, i, i + Len(needle) - 1) = needle}
    IN  IF at = {} THEN -1
        ELSE (CHOOSE i \in at : \A j \in at : i <= j) - 1

\* s.replace(/\s+/g, " ")
RECURSIVE Collapse(_)
Collapse(s) ==
    IF s = << >> THEN << >>
    ELSE IF IsSpace(Head(s))
         THEN IF Len(s) > 1 /\ IsSpace(s[2])
              THEN Collapse(Tail(s))
              ELSE <<" ">> \o Collapse(Tail(s))
         ELSE <<Head(s)>> \o Collapse(Tail(s))

\* -------------------------------------------------------------- prototypes
\* \w of a regular expression: [A-Za-z0-9_]
WordChars ==
    {"a", "b", "c", "d", "e", "f", "g", "h", "i", "j", "k", "l", "m", "n", "o",
     "p", "q", "r", "s", "t", "u", "v", "w", "x", "y", "z",
     "A", "B", "C", "D", "E", "F", "G", "H", "I", "J", "K", "L", "M", "N", "O",
     "P", "Q", "R", "S", "T", "U", "V", "W", "X", "Y", "Z",
     "0", "1", "2", "3", "4", "5", "6", "7", "8", "9", "_"}

IsWord(t) == t \in WordChars

\* the texts the extractors fall back to
Unknown == <<"u", "n", "k", "n", "o", "w", "n">>
Void == <<"v", "o", "i", "d">>

\* the end of the longest run of word characters that starts at i
RunEnd(s, i) ==
    CHOOSE j \in i..Len(s) :
        /\ \A m \in i..j : IsWord(s[m])
        /\ j = Len(s) \/ ~IsWord(s[j + 1])

\* the position of the first character after j that is no whitespace
\* (Len(s) + 1: none)
NextNonSpace(s, j) ==
    IF \A m \in (j + 1)..Len(s) : IsSpace(s[m]) THEN Len(s) + 1
    ELSE CHOOSE k \in (j + 1)..Len(s) :
            ~IsSpace(s[k]) /\ \A m \in (j + 1)..(k - 1) : IsSpace(s[m])

\* prototype.match(/(\w+)\s*\(/)?.[1] || "unknown"
extractMethodName(prototype) ==
    LET starts == {i \in 1..Len(prototype) :
                      /\ IsWord(prototype[i])
                      /\ LET k == NextNonSpace(prototype, RunEnd(prototype, i))
                         IN  k <= Len(prototype) /\ prototype[k] = "("}
    IN  IF starts = {} THEN Unknown
        ELSE LET i == CHOOSE x \in starts : \A y \in starts : x <= y
             IN  SubSeq(prototype, i, RunEnd(prototype, i))

\* the first ")" after position p (0: none)
CloseAfter(s, p) ==
    LET at == {q \in (p + 1)..Len(s) : s[q] = ")"}
    IN  IF at = {} THEN 0 ELSE CHOOSE q \in at : \A r \in at : q <= r

\* prototype.match(/\((.*?)\)/)?.[1] || "": the dot matches no line break
extractParameters(prototype) ==
    LET opens == {p \in 1..Len(prototype) :
                     /\ prototype[p] = "("
                     /\ CloseAfter(prototype, p) > 0
                     /\ \A m \in (p + 1)..(CloseAfter(prototype, p) - 1) :
                           prototype[m] # "\n"}
    IN  IF opens = {} THEN Empty
        ELSE LET p == CHOOSE x \in opens : \A y \in opens : x <= y
             IN  SubSeq(prototype, p + 1, CloseAfter(prototype, p) - 1)

\* s.split(/\s+/) of a trimmed text that is not empty
RECURSIVE SplitSpaces(_)
SplitSpaces(s) ==
    IF \A i \in 1..Len(s) : ~IsSpace(s[i]) THEN <<s>>
    ELSE LET i == CHOOSE x \in 1..Len(s) :
                      IsSpace(s[x]) /\ \A y \in 1..(x - 1) : ~IsSpace(s[y])
         IN  <<SubSeq(s, 1, i - 1)>>
             \o SplitSpaces(SubSeq(s, NextNonSpace(s, i), Len(s)))

\* parts.join(" ")
RECURSIVE JoinSpaces(_)
JoinSpaces(parts) ==
    IF parts = << >> THEN Empty
    ELSE IF Len(parts) = 1 THEN parts[1]
    ELSE parts[1] \o <<" ">> \o JoinSpaces(Tail(parts))

\* parts.slice(0, -1).join(" ") of text.trim().split(/\s+/)
AllButLast(text) ==
    LET parts == SplitSpaces(Trim(text))
    IN  JoinSpaces(SubSeq(parts, 1, Len(parts) - 1))

\* prototype.split("(")[0]
BeforeParen(prototype) ==
    IF \A i \in 1..Len(prototype) : prototype[i] # "("
    THEN prototype
    ELSE SubSeq(prototype, 1,
                (CHOOSE i \in 1..Len(prototype) :
                    /\ prototype[i] = "("
                    /\ \A j \in 1..(i - 1) : prototype[j] # "(") - 1)

extractReturnType(prototype) ==
    IF BeforeParen(prototype) = Empty THEN Void
    ELSE IF AllButLast(BeforeParen(prototype)) = Empty THEN Void
    ELSE AllButLast(BeforeParen(prototype))

\* the three words extractVisibility looks for
Private == <<"p", "r", "i", "v", "a", "t", "e">>
Protected == <<"p", "r", "o", "t", "e", "c", "t", "e", "d">>
Public == <<"p", "u", "b", "l", "i", "c">>

extractVisibility_ProtectedFirst(prototype) ==
    IF Includes(prototype, Protected) THEN "protected"
    ELSE IF Includes(prototype, Private) THEN "private"
    ELSE "public"

extractVisibility(prototype) ==
    IF Includes(prototype, Private) THEN "private"
    ELSE IF Includes(prototype, Protected) THEN "protected"
    ELSE "public"

\* --------------------------------------------- the sample of the index
ClassSample == 5     \* structure.classes.slice(0, 5)
FileSample == 3      \* structure.files.slice(0, 3)
ModuleSample == 2    \* structure.modules.slice(0, 2)

\* ------------------------------------------------------------ the network
Site == <<"http", "://docs">>

IndexUrl == Site \o <<"/", "index.html">>
BadUrl == <<"not-a-url">>

FetchUrls == {IndexUrl, BadUrl}

\* possibleClassPages
ClassPages == <<<<"annotated.html">>, <<"classes.html">>, <<"hierarchy.html">>>>

\* `${baseUrl}/${page}`
PageUrl(baseUrl, page) == baseUrl \o <<"/">> \o page

BadBase == <<"docs.invalid">>

\* a second site, the one the searches run against
Sdk == <<"http", "://sdk">>

SdkClass1 == <<"class", "_c1", ".html">>
SdkClass2 == <<"class", "_c2", ".html">>
SdkFile == <<"a_8h", ".html">>
SdkModule == <<"group", "__m", ".html">>

\* a third site, whose classes getClassDetails looks up
Api == <<"http", "://api">>

ApiClass(name) == <<"class">> \o name \o <<".html">>

\* two sites that serve a main page and nothing else
LeanA == <<"http", "://a">>
LeanB == LeanA \o <<"/", "sub">>

BuildSites == {LeanA, LeanB}

\* a site whose main page links to pages of functions
Fn == <<"http", "://fn">>

FnPage(tag) == <<"function", tag, ".html">>

\* a site with more classes, files and modules than an index samples
Big == <<"http", "://big">>

Digits == <<"1", "2", "3", "4", "5", "6">>

BigClass(i) == <<"class", Digits[i], ".html">>
BigFile(i) == <<"file", Digits[i], ".html">>
BigModule(i) == <<"group", Digits[i], ".html">>

BigPages ==
    {PageUrl(Big, BigClass(i)) : i \in 1..(ClassSample + 1)}
    \cup {PageUrl(Big, BigFile(i)) : i \in 1..(FileSample + 1)}
    \cup {PageUrl(Big, BigModule(i)) : i \in 1..(ModuleSample + 1)}

\* The bodies a GET of u can deliver (a live site changes between requests).
Serves(u) ==
    CASE u = IndexUrl -> {"index_v1", "index_v2"}
      [] u = PageUrl(Site, ClassPages[1]) -> {"annotated_v1", "annotated_v2"}
      [] u = PageUrl(Site, ClassPages[2]) -> {"classes_v1"}
      [] u = PageUrl(Site, ClassPages[3]) -> {"hierarchy_v1"}
      [] u = PageUrl(Sdk, <<"index.html">>) -> {"sdk_index_v1", "sdk_index_v2"}
      [] u = PageUrl(Sdk, <<"modules.html">>) -> {"sdk_modules"}
      [] u = PageUrl(Sdk, <<"files.html">>) -> {"sdk_files"}
      [] u = PageUrl(Sdk, ClassPages[1]) -> {"sdk_annotated"}
      [] u = PageUrl(Sdk, SdkClass1) -> {"sdk_c1_v1", "sdk_c1_v2"}
      [] u = PageUrl(Sdk, SdkClass2) -> {"sdk_c2"}
      [] u = PageUrl(Sdk, SdkFile) -> {"sdk_file"}
      [] u = PageUrl(Sdk, SdkModule) -> {"sdk_module"}
      [] u = PageUrl(LeanA, <<"index.html">>) -> {"a_index_v1", "a_index_v2"}
      [] u = PageUrl(LeanB, <<"index.html">>) -> {"b_index"}
      [] u = PageUrl(Big, <<"index.html">>) -> {"big_index"}
      [] u = PageUrl(Big, <<"modules.html">>) -> {"big_modules"}
      [] u = PageUrl(Big, <<"files.html">>) -> {"big_files"}
      [] u = PageUrl(Big, ClassPages[1]) ->
            {"big_annotated_v1", "big_annotated_v2"}
      [] u \in BigPages -> {"big_page"}
      [] u = PageUrl(Api, ClassPages[1]) ->
            {"api_annotated_v1", "api_annotated_v2", "api_annotated_v3"}
      [] u = PageUrl(Api, ClassPages[2]) -> {"api_classes"}
      [] u = PageUrl(Api, ApiClass(<<"a", "b">>)) -> {"api_ab"}
      [] u = PageUrl(Api, ApiClass(<<"A", "B">>)) -> {"api_AB"}
      [] u = PageUrl(Api, ApiClass(<<"a", "b", "c">>)) -> {"api_abc"}
      [] u = PageUrl(Fn, <<"index.html">>) -> {"fn_index_v1", "fn_index_v2"}
      [] u = PageUrl(Fn, FnPage("_a")) -> {"fn_a"}
      [] u = PageUrl(Fn, FnPage("_b")) -> {"fn_b"}
      [] u = PageUrl(Fn, FnPage("_c")) -> {"fn_c"}
      [] u = PageUrl(Fn, FnPage("_d")) -> {"fn_d"}
      [] u = PageUrl(Fn, FnPage("_e")) -> {"fn_e"}
      [] OTHER -> {}

NoResp == [kind |-> "none", body |-> "", status |-> "", reason |-> Empty]

\* What fetch(url) can do: resolve with a 2xx response and its body, resolve
\* with a non-success status, or reject (DNS failure, refused connection,
\* malformed address).  A URL that is not absolute always rejects.
Outcomes(u) ==
    IF ~StartsWith(u, <<"http">>)
    THEN {[kind |-> "neterr", body |-> "", status |-> "",
           reason |-> <<"Failed to parse URL">>]}
    ELSE {[kind |-> "ok", body |-> b, status |-> "200", reason |-> <<"OK">>] :
              b \in Serves(u)}
         \cup {[kind |-> "http", body |-> "error_page", status |-> "404",
                reason |-> <<"Not Found">>],
               [kind |-> "neterr", body |-> "", status |-> "",
                reason |-> <<"fetch failed">>]}

\* ------------------------------------------------------------- fetch cache
isValidCache_Inverted(timestamp) == now - timestamp > cacheTimeout

isValidCache_Inclusive(timestamp) == now - timestamp <= cacheTimeout

isValidCache(timestamp) == now - timestamp < cacheTimeout

isValidSearchIndex_PageWindow(timestamp) == now - timestamp < cacheTimeout

isValidSearchIndex(timestamp) == now - timestamp < searchIndexTimeout

\* Map.set(key, value)
MapSet(m, k, v) == [x \in DOMAIN m \cup {k} |-> IF x = k THEN v ELSE m[x]]

\* cached && this.isValidCache(cached.timestamp)
CacheHit(u) == u \in DOMAIN cache /\ isValidCache(cache[u].timestamp)

\* this.cache.set(cacheKey, { content, timestamp: Date.now() })
CacheSet(u, content) ==
    MapSet(cache, u, [content |-> content, timestamp |-> now])

\* cached.content: undefined for an entry that has no such property
ContentOf(entry) ==
    IF "content" \in DOMAIN entry THEN entry.content ELSE "undefined"

\* cached.data
DataOf(entry) ==
    IF "data" \in DOMAIN entry THEN entry.data ELSE <<"undefined">>

\* a variant that keeps the entry of a fetch that completed first
CacheAfter_KeepFresh(u, r) ==
    IF r.kind = "ok" /\ ~CacheHit(u) THEN CacheSet(u, r.body) ELSE cache

CacheAfter_StoreFirst(u, r) ==
    IF r.kind = "neterr" THEN cache ELSE CacheSet(u, r.body)

\* the cache after fetchPage has handled response r: only a successful
\* response reaches the cache.set
CacheAfter(u, r) ==
    IF r.kind = "ok" THEN CacheSet(u, r.body) ELSE cache

\* the message of the error fetchPage throws for response r
FetchError(u, r) ==
    Concat3(<<"Failed to fetch ">>, u, <<": ">>)
        \o (IF r.kind = "http"
            THEN <<"HTTP ", r.status, ": ">> \o r.reason
            ELSE r.reason)

\* ------------------------------------------------------------- documents
\* An <a> element: its href attribute (Empty: none), its text, the text of
\* the .brief elements under its parent and of the last <td> of its row.
A(href, text, brief, rowLast) ==
    [href |-> href, text |-> text, brief |-> brief, rowLast |-> rowLast]

\* A <dt> element: the <a> elements inside it (positions in the document's
\* anchors) and the text of the <dd> that follows it.
Dt(links, dd) == [links |-> links, dd |-> dd]

\* A <tr> element: the <a> elements inside it and the text of its last <td>.
Tr(links, lastTd) == [links |-> links, lastTd |-> lastTd]

NoDoc == [anchors |-> << >>, dts |-> << >>, rows |-> << >>]

\* the <a>, <dt> and <tr> elements of a page
Elements(content) ==
    CASE content = "annotated_v1" ->
            [anchors |-> <<
                A(<<"class", "Foo", ".html">>, <<"Foo">>, Empty,
                  <<" ", "Foo of annotated">>),
                A(<<"struct", "Bar", ".html">>, <<" ", "Bar", " ">>,
                  <<"brief Bar">>, <<"row Bar">>),
                A(<<"class", "Foo", "_1", ".html">>, <<"Foo", " ">>,
                  <<"another Foo">>, Empty),
                A(<<"pages", ".html">>, <<"Related">>, Empty, Empty),
                A(<<"http", "://other/", "interface", "I", ".html">>,
                  <<"I">>, Empty, Empty),
                A(<<"class", "Anon", ".html">>, <<" ">>, Empty, Empty)>>,
             dts |-> <<
                Dt(<<1>>, <<"dd Foo">>),
                Dt(<<2, 3>>, <<"dd BarFoo", " ">>),
                Dt(<<4, 1>>, <<"dd Related">>),
                Dt(<< >>, <<"dd none">>)>>,
             rows |-> << >>]
      [] content = "annotated_v2" ->
            [anchors |-> <<
                A(<<"struct", "Bar", ".html">>, <<"Bar">>, Empty, Empty),
                A(Empty, <<"Ghost">>, Empty, Empty),
                A(<<"class", "Baz", ".html">>, <<"Baz">>, Empty,
                  <<"Baz of annotated">>)>>,
             dts |-> << >>, rows |-> << >>]
      [] content = "classes_v1" ->
            [anchors |-> <<
                A(<<"class", "Baz", ".html">>, <<"Baz">>, <<"Baz of classes">>,
                  Empty),
                A(<<"class", "Foo", ".html">>, <<"Foo">>, Empty,
                  <<"Foo of classes">>),
                A(<<"interface", "Qux", ".html">>, <<"Qux">>, Empty, Empty)>>,
             dts |-> <<Dt(<<3>>, <<"dd Qux">>)>>, rows |-> << >>]
      [] content = "hierarchy_v1" ->
            [anchors |-> <<
                A(<<"class", "Qux", ".html">>, <<"Qux">>, Empty,
                  <<"Qux of hierarchy">>),
                A(<<"struct", "Bar", ".html">>, <<"Bar">>, Empty,
                  <<"Bar of hierarchy">>),
                A(<<"class", "Zed", ".html">>, <<"Zed">>, Empty, Empty)>>,
             dts |-> <<Dt(<<1, 3>>, <<"dd QuxZed">>),
                       Dt(<<3>>, <<"dd Zed">>)>>,
             rows |-> << >>]
      [] content = "sdk_annotated" ->
            [anchors |-> <<
                A(SdkClass1, <<"C1">>, Empty, <<"first">>),
                A(SdkClass2, <<"C2">>, Empty, <<"second">>)>>,
             dts |-> << >>, rows |-> << >>]
      [] content = "sdk_modules" ->
            [anchors |-> <<
                A(SdkModule, <<" ", "Mod">>, Empty, Empty),
                A(Empty, <<"Anchor">>, Empty, Empty)>>,
             dts |-> << >>,
             rows |-> <<Tr(<< >>, <<"Modules">>),
                        Tr(<<1>>, <<"the module", " ">>),
                        Tr(<<2>>, <<"no href">>)>>]
      [] content = "sdk_files" ->
            [anchors |-> <<
                A(<<"dir_src">>, <<"src">>, Empty, Empty),
                A(SdkFile, <<"a.h">>, Empty, Empty),
                A(<<"a_8h", "_source", ".html">>, <<"[code]">>, Empty, Empty)>>,
             dts |-> << >>,
             rows |-> <<Tr(<<1>>, <<"a directory">>),
                        Tr(<<2, 3>>, <<"a header">>)>>]
      [] content = "big_annotated_v1" ->
            [anchors |-> [i \in 1..(ClassSample + 1) |->
                            A(BigClass(i), <<"K", Digits[i]>>, Empty, Empty)],
             dts |-> << >>, rows |-> << >>]
      [] content = "big_annotated_v2" ->
            [anchors |-> [i \in 1..(ClassSample - 1) |->
                            A(BigClass(i), <<"K", Digits[i]>>, Empty, Empty)],
             dts |-> << >>, rows |-> << >>]
      [] content = "big_files" ->
            [anchors |-> [i \in 1..(FileSample + 1) |->
                            A(BigFile(i), <<"f", Digits[i]>>, Empty, Empty)],
             dts |-> << >>,
             rows |-> [i \in 1..(FileSample + 1) |-> Tr(<<i>>, Empty)]]
      [] content = "big_modules" ->
            [anchors |-> [i \in 1..(ModuleSample + 1) |->
                            A(BigModule(i), <<"G", Digits[i]>>, Empty, Empty)],
             dts |-> << >>,
             rows |-> [i \in 1..(ModuleSample + 1) |-> Tr(<<i>>, Empty)]]
      [] content = "api_annotated_v1" ->
            [anchors |-> <<
                A(ApiClass(<<"a", "b", "c">>), <<"a", "b", "c">>, Empty,
                  Empty),
                A(ApiClass(<<"A", "B">>), <<"A", "B">>, Empty, Empty),
                A(ApiClass(<<"a", "b">>), <<"a", "b">>, Empty, Empty)>>,
             dts |-> << >>, rows |-> << >>]
      [] content = "api_annotated_v2" ->
            [anchors |-> <<
                A(ApiClass(<<"a", "b">>), <<"a", "b">>, Empty, Empty),
                A(ApiClass(<<"a", "b", "c">>), <<"a", "b", "c">>, Empty,
                  Empty)>>,
             dts |-> << >>, rows |-> << >>]
      [] content = "api_annotated_v3" ->
            [anchors |-> <<
                A(ApiClass(<<"A", "B">>), <<" ", "A", "B">>, Empty, Empty)>>,
             dts |-> << >>, rows |-> << >>]
      [] content = "api_classes" ->
            [anchors |-> <<
                A(ApiClass(<<"a", "b">>), <<"a", "b">>, Empty, Empty)>>,
             dts |-> << >>, rows |-> << >>]
      [] OTHER -> NoDoc

\* The texts of a page: <title>, the first <h1>, and <body> once nav,
\* .navpath, .footer, script, style and .tabs are removed.
Text(title, h1, body) == [title |-> title, h1 |-> h1, body |-> body]

Texts(content) ==
    CASE content = "sdk_index_v1" ->
            Text(<<"M">>, Empty, <<"\n", " ", "x", "a", "b", " ">>)
      [] content = "sdk_index_v2" ->
            Text(<<" ", "A", "B", " ">>, <<"h">>, <<"y">>)
      [] content = "sdk_c1_v1" ->
            Text(<<"a", "b", "c">>, Empty, <<"z">>)
      [] content = "sdk_c1_v2" ->
            Text(<<"c">>, Empty, <<"c", " ", "c">>)
      [] content = "sdk_c2" ->
            Text(Empty, <<"C", "2">>, <<"a", " ", "\n", "A", "b", "b">>)
      [] content = "sdk_file" ->
            Text(Empty, Empty, <<"b", "a", "b">>)
      [] content = "sdk_module" ->
            Text(<<"b", "A", "b">>, Empty, <<"a", "B">>)
      [] content = "a_index_v1" -> Text(<<"M">>, Empty, <<"a", "b">>)
      [] content = "a_index_v2" -> Text(<<"a", "b">>, Empty, <<"y">>)
      [] content = "b_index" -> Text(<<"B">>, Empty, <<"a", "b", "b">>)
      [] OTHER -> Text(Empty, Empty, Empty)

\* The <a> elements inside .tabs, .navpath, .nav, #navrow1 and #navrow2.
NavLinks(content) ==
    CASE content = "sdk_index_v1" ->
            <<A(<<"pages", ".html">>, <<"Main">>, Empty, Empty),
              A(<<"#", "top">>, <<"R", "e", "l", "a", "t", "e", "d">>,
                Empty, Empty),
              A(<<"http", "://other/", "pages", ".html">>, <<"Other">>,
                Empty, Empty),
              A(<<"topics", ".html">>,
                <<" ", "R", "e", "l", "a", "t", "e", "d", " ">>, Empty, Empty),
              A(ClassPages[1], <<"Classes">>, Empty, Empty),
              A(Empty, <<"r", "e", "l", "a", "t", "e", "d">>, Empty, Empty)>>
      [] content = "sdk_index_v2" ->
            <<A(ClassPages[1], <<"Classes">>, Empty, Empty)>>
      [] OTHER -> << >>

\* cheerio.load(content): what the selections of the crawler find in it
Load(content) ==
    [anchors |-> Elements(content).anchors, dts |-> Elements(content).dts,
     rows |-> Elements(content).rows, title |-> Texts(content).title,
     h1 |-> Texts(content).h1, body |-> Texts(content).body]

\* ---------------------------------------------------- the members of a class
MemItemCap == 15      \* $(".memitem").slice(0, 15)
MemberListCap == 10   \* the member list elements: slice(0, 10)

\* letters that tell the members of a page apart
Tags ==
    <<"a", "b", "c", "d", "e", "f", "g", "h", "i", "j", "k", "l", "m", "n", "o",
      "q", "r", "s">>

\* a .memitem block: the texts of its .memproto and .memdoc, if it has them
MemItem(hasProto, proto, hasDoc, doc) ==
    [hasProto |-> hasProto, proto |-> proto, hasDoc |-> hasDoc, doc |-> doc]

\* a .memItemLeft or .memItemRight element of .memberdecls: its text and
\* the text of its next sibling
Decl(text, next) == [text |-> text, next |-> next]

\* the .memitem blocks and the member list elements of a class page, in
\* document order
ClassPage(content) ==
    CASE content = "api_ab" ->
            [memitems |->
                [i \in 1..(MemItemCap + 2) |->
                    IF i % 3 = 0
                    THEN MemItem(TRUE,
                                 <<" ">> \o Private
                                     \o <<" ", "i", "n", "t", " ", "p", Tags[i]>>,
                                 TRUE, <<"doc ", Tags[i], " ">>)
                    ELSE MemItem(TRUE,
                                 <<"i", "n", "t", " ", "m", Tags[i], "(", "i", "n",
                                   "t", " ", "x", ")", "\n">>,
                                 TRUE, <<" ", "doc ", Tags[i]>>)],
             decls |->
                [j \in 1..(MemberListCap + 2) |->
                    IF j % 2 = 1
                    THEN Decl(<<"i", "n", "t", " ">>, <<"right ", Tags[j]>>)
                    ELSE Decl(<<"m", Tags[j \div 2], "(", "i", "n", "t", " ",
                                "x", ")">>,
                              <<"brief ", Tags[j]>>)]]
      [] content = "api_AB" ->
            [memitems |-> <<
                MemItem(TRUE, <<"v", "(", ")">>, FALSE, Empty),
                MemItem(FALSE, Empty, TRUE, <<"orphan">>),
                MemItem(TRUE, <<" ">>, TRUE, <<"blank">>),
                MemItem(TRUE, <<"i", "n", "t", " ", "n">>, TRUE, <<"doc n">>)>>,
             decls |-> <<
                Decl(<<" ">>, <<"skipped">>),
                Decl(<<"t", "y", "p", "e", "d", "e", "f", " ", "T">>,
                     <<"a typedef">>),
                Decl(<<"#", "d", "e", "f", "i", "n", "e", " ", "D">>,
                     <<"a macro">>),
                Decl(<<"(", "x", ")">>, <<"nameless">>),
                Decl(<<"i", "n", "t", " ", "n">>, <<"brief n">>)>>]
      [] content = "fn_a" ->
            [memitems |-> <<
                MemItem(TRUE,
                        <<" ", "i", "n", "t", " ", "f", "a", "(", "i", "n", "t",
                          " ", "x", ",", " ", "c", "*", " ", "y", ")">>,
                        TRUE, <<"doc a">>)>>,
             decls |-> << >>]
      [] content \in {"fn_b", "fn_c", "fn_d"} ->
            [memitems |-> <<
                MemItem(TRUE, <<"v", "o", "i", "d", " ", "g", "(", ")">>,
                        FALSE, Empty),
                MemItem(TRUE, <<"i", "n", "t", " ", "h", "(", ")">>,
                        TRUE, <<"second block">>)>>,
             decls |-> << >>]
      [] content = "fn_e" ->
            [memitems |-> <<
                MemItem(TRUE, <<"i", "n", "t", " ", "v">>, TRUE, <<"a value">>),
                MemItem(TRUE, <<"i", "n", "t", " ", "h", "(", ")">>,
                        TRUE, <<"second block">>)>>,
             decls |-> << >>]
      [] OTHER -> [memitems |-> << >>, decls |-> << >>]

\* the href of the <a href*='function'> elements of a page, in document
\* order
FunctionLinks(content) ==
    CASE content = "fn_index_v1" ->
            <<FnPage("_a"), FnPage("_b"), FnPage("_c"), FnPage("_d")>>
      [] content = "fn_index_v2" ->
            <<FnPage("_e"), PageUrl(Fn, FnPage("_a"))>>
      [] OTHER -> << >>

\* parts[parts.length - 1] || "unknown" of prototype.trim().split(/\s+/)
extractPropertyName(prototype) ==
    LET parts == SplitSpaces(Trim(prototype))
    IN  IF parts[Len(parts)] = Empty THEN Unknown ELSE parts[Len(parts)]

\* parts.slice(0, -1).join(" ") || "unknown"
extractPropertyType(prototype) ==
    IF AllButLast(prototype) = Empty THEN Unknown ELSE AllButLast(prototype)

\* text.includes("(") && text.includes(")")
HasParens(text) == Includes(text, <<"(">>) /\ Includes(text, <<")">>)

Method(text, description) ==
    [kind |-> "method", name |-> extractMethodName(text),
     description |-> Trim(description),
     parameters |-> extractParameters(text),
     type |-> extractReturnType(text),
     visibility |-> extractVisibility(text)]

Property(text, description) ==
    [kind |-> "property", name |-> extractPropertyName(text),
     description |-> Trim(description), parameters |-> Empty,
     type |-> extractPropertyType(text),
     visibility |-> extractVisibility(text)]

DetailBlocks_All(page) == page.memitems

\* $(".memitem").slice(0, 15)
DetailBlocks(page) ==
    SubSeq(page.memitems, 1,
           IF MemItemCap < Len(page.memitems) THEN MemItemCap
           ELSE Len(page.memitems))

\* $(".memberdecls .memItemLeft, .memberdecls .memItemRight").slice(0, 10)
ListElements(page) ==
    SubSeq(page.decls, 1,
           IF MemberListCap < Len(page.decls) THEN MemberListCap
           ELSE Len(page.decls))

\* what the callback of the first scan pushes for a block: a method, a
\* property, or nothing
FromBlock(item) ==
    IF item.hasProto /\ item.hasDoc
    THEN IF HasParens(Trim(item.proto))
         THEN <<Method(Trim(item.proto), item.doc)>>
         ELSE <<Property(Trim(item.proto), item.doc)>>
    ELSE << >>

\* what the callback of the second scan pushes for an element
FromElement(decl) ==
    LET text == Trim(decl.text)
    IN  IF text = Empty THEN << >>
        ELSE IF HasParens(text)
        THEN IF extractMethodName(text) # Unknown
             THEN <<Method(text, decl.next)>> ELSE << >>
        ELSE IF /\ ~Includes(text, <<"t", "y", "p", "e", "d", "e", "f">>)
                /\ ~Includes(text, <<"#", "d", "e", "f", "i", "n", "e">>)
                /\ extractPropertyName(text) # Unknown
        THEN <<Property(text, decl.next)>>
        ELSE << >>

\* the pushes of the callbacks, one after another
RECURSIVE Pushed(_)
Pushed(pushes) ==
    IF pushes = << >> THEN << >>
    ELSE Head(pushes) \o Pushed(Tail(pushes))

\* the members of both scans, in the order they are pushed
Members(page) ==
    Pushed([i \in 1..Len(DetailBlocks(page)) |->
                FromBlock(DetailBlocks(page)[i])])
        \o Pushed([j \in 1..Len(ListElements(page)) |->
                       FromElement(ListElements(page)[j])])

OfKind(members, kind) == SelectSeq(members, LAMBDA m : m.kind = kind)

\* --------------------------------------------------------------- functions
FunctionSample == 3   \* $("a[href*='function']").toArray().slice(0, 3)

\* `functions_${baseUrl}`
FunctionsKey(baseUrl) == <<"functions_">> \o baseUrl

\* paramString.split(",")
RECURSIVE SplitCommas(_)
SplitCommas(s) ==
    IF \A i \in 1..Len(s) : s[i] # "," THEN <<s>>
    ELSE LET i == CHOOSE x \in 1..Len(s) :
                      s[x] = "," /\ \A y \in 1..(x - 1) : s[y] # ","
         IN  <<SubSeq(s, 1, i - 1)>> \o SplitCommas(SubSeq(s, i + 1, Len(s)))

\* parseParameters: the name and the type of each parameter
parseParameters(signature) ==
    IF Trim(extractParameters(signature)) = Empty THEN << >>
    ELSE LET params == SplitCommas(extractParameters(signature))
         IN  [i \in 1..Len(params) |->
                [name |-> extractPropertyName(params[i]),
                 type |-> extractPropertyType(params[i])]]

\* what the first .memitem of a function page makes getFunctions push
FunctionOf(content, url) ==
    LET items == ClassPage(content).memitems
        text == Trim(items[1].proto)
    IN  IF /\ items # << >>
           /\ items[1].hasProto
           /\ HasParens(text)
           /\ extractMethodName(text) # Unknown
        THEN <<[name |-> extractMethodName(text), url |-> url,
                description |-> Trim(items[1].doc), signature |-> text,
                parameters |-> parseParameters(text),
                returnType |-> extractReturnType(text)]>>
        ELSE << >>

\* ------------------------------------------------------------- listClasses
\* href.startsWith("http") ? href : `${baseUrl}/${href}`
ResolveHref(baseUrl, href) ==
    IF StartsWith(href, <<"http">>) THEN href ELSE PageUrl(baseUrl, href)

ClassInfo(name, url, description, section) ==
    [name |-> name, url |-> url, description |-> description,
     section |-> section]

\* $("a[href*='class'], a[href*='struct'], a[href*='interface']")
IsClassAnchor(a) ==
    \/ Includes(a.href, <<"class">>)
    \/ Includes(a.href, <<"struct">>)
    \/ Includes(a.href, <<"interface">>)

\* the ClassInfo the anchor scan makes of an <a>, before the duplicate test
AnchorEntry(a, baseUrl, page) ==
    ClassInfo(Trim(a.text), ResolveHref(baseUrl, a.href),
              Trim(IF a.brief # Empty THEN a.brief ELSE a.rowLast), page)

\* href && name
AnchorQualifies(a) ==
    IsClassAnchor(a) /\ a.href # Empty /\ Trim(a.text) # Empty

\* $dt.find("a"): .attr("href") is the first link's, .text() all the texts
DtHref(doc, dt) == doc.anchors[dt.links[1]].href

RECURSIVE JoinTexts(_, _)
JoinTexts(doc, links) ==
    IF links = << >> THEN Empty
    ELSE doc.anchors[Head(links)].text \o JoinTexts(doc, Tail(links))

DtEntry(doc, dt, baseUrl, page) ==
    ClassInfo(Trim(JoinTexts(doc, dt.links)),
              ResolveHref(baseUrl, DtHref(doc, dt)), Trim(dt.dd), page)

\* $link.length, href && name && (href.includes("class") || ...("struct"))
DtQualifies(doc, dt) ==
    /\ dt.links # << >>
    /\ DtHref(doc, dt) # Empty
    /\ Trim(JoinTexts(doc, dt.links)) # Empty
    /\ \/ Includes(DtHref(doc, dt), <<"class">>)
       \/ Includes(DtHref(doc, dt), <<"struct">>)

HasClass_ByUrl(classes, entry) ==
    \E i \in 1..Len(classes) : classes[i].url = entry.url

\* classes.some(c => c.name === name)
HasClass(classes, entry) ==
    \E i \in 1..Len(classes) : classes[i].name = entry.name

\* the .each over the anchors, from the i-th on
RECURSIVE ScanAnchors(_, _, _, _, _)
ScanAnchors(classes, doc, i, baseUrl, page) ==
    IF i > Len(doc.anchors) THEN classes
    ELSE LET a == doc.anchors[i]
             entry == AnchorEntry(a, baseUrl, page)
         IN  ScanAnchors(
                 IF AnchorQualifies(a) /\ ~HasClass(classes, entry)
                 THEN Append(classes, entry) ELSE classes,
                 doc, i + 1, baseUrl, page)

\* the .each over the <dt> elements, from the i-th on
RECURSIVE ScanDts(_, _, _, _, _)
ScanDts(classes, doc, i, baseUrl, page) ==
    IF i > Len(doc.dts) THEN classes
    ELSE LET dt == doc.dts[i]
         IN  ScanDts(
                 IF DtQualifies(doc, dt)
                    /\ ~HasClass(classes, DtEntry(doc, dt, baseUrl, page))
                 THEN Append(classes, DtEntry(doc, dt, baseUrl, page))
                 ELSE classes,
                 doc, i + 1, baseUrl, page)

\* one listing page: the anchor scan, then the definition-list scan
ScanPage(classes, doc, baseUrl, page) ==
    ScanDts(ScanAnchors(classes, doc, 1, baseUrl, page), doc, 1, baseUrl, page)

\* history: every candidate of a page in the order the scans meet them
RECURSIVE Candidates(_, _, _, _, _)
Candidates(doc, baseUrl, page, scan, i) ==
    IF scan = "anchors"
    THEN IF i > Len(doc.anchors)
         THEN Candidates(doc, baseUrl, page, "dts", 1)
         ELSE (IF AnchorQualifies(doc.anchors[i])
               THEN <<AnchorEntry(doc.anchors[i], baseUrl, page)>>
               ELSE << >>)
              \o Candidates(doc, baseUrl, page, "anchors", i + 1)
    ELSE IF i > Len(doc.dts) THEN << >>
         ELSE (IF DtQualifies(doc, doc.dts[i])
               THEN <<DtEntry(doc, doc.dts[i], baseUrl, page)>>
               ELSE << >>)
              \o Candidates(doc, baseUrl, page, "dts", i + 1)

\* ------------------------------------------------- modules and files
EndsWith(s, suffix) ==
    Len(s) >= Len(suffix)
    /\ SubSeq(s, Len(s) - Len(suffix) + 1, Len(s)) = suffix

RowHref(doc, row) == doc.anchors[row.links[1]].href

RowName(doc, row) == Trim(JoinTexts(doc, row.links))

\* getModules: a row with a link, an href and a name is a module
RECURSIVE ModuleRows(_, _, _)
ModuleRows(doc, i, baseUrl) ==
    IF i > Len(doc.rows) THEN << >>
    ELSE LET row == doc.rows[i]
         IN  (IF /\ row.links # << >>
                 /\ RowHref(doc, row) # Empty
                 /\ RowName(doc, row) # Empty
              THEN <<[name |-> RowName(doc, row),
                      url |-> PageUrl(baseUrl, RowHref(doc, row)),
                      description |-> Trim(row.lastTd)]>>
              ELSE << >>)
             \o ModuleRows(doc, i + 1, baseUrl)

\* getFiles: as getModules, and the href ends with ".html"
RECURSIVE FileRows(_, _, _)
FileRows(doc, i, baseUrl) ==
    IF i > Len(doc.rows) THEN << >>
    ELSE LET row == doc.rows[i]
         IN  (IF /\ row.links # << >>
                 /\ RowHref(doc, row) # Empty
                 /\ RowName(doc, row) # Empty
                 /\ EndsWith(RowHref(doc, row), <<".html">>)
              THEN <<[name |-> RowName(doc, row),
                      url |-> PageUrl(baseUrl, RowHref(doc, row)),
                      description |-> Trim(row.lastTd),
                      path |-> RowName(doc, row)]>>
              ELSE << >>)
             \o FileRows(doc, i + 1, baseUrl)

\* ------------------------------------------------------------ search index
ContentCap == 800    \* .substring(0, 800)
SnippetContext == 100
SnippetFallback == 200

Ellipsis == <<".", ".", ".">>

Slice_All(seq, n) == seq

\* array.slice(0, n)
Slice(seq, n) == SubSeq(seq, 1, IF n < Len(seq) THEN n ELSE Len(seq))

ToIndex(seq, type, section) ==
    [i \in 1..Len(seq) |->
        [url |-> seq[i].url, type |-> type, section |-> section]]

\* pagesToIndex
PagesToIndex(mainPage, classes, files, modules) ==
    <<[url |-> mainPage, type |-> "page", section |-> "main"]>>
    \o ToIndex(Slice(classes, ClassSample), "class", "classes")
    \o ToIndex(Slice(files, FileSample), "file", "files")
    \o ToIndex(Slice(modules, ModuleSample), "module", "modules")

\* page$("title").text() || page$("h1").first().text() || "Untitled"
PageTitle(doc) ==
    IF doc.title # Empty THEN doc.title
    ELSE IF doc.h1 # Empty THEN doc.h1
    ELSE <<"Untitled">>

\* the record buildSearchIndex pushes for a fetched page
PageIndex(page, doc) ==
    [url |-> page.url, title |-> Trim(PageTitle(doc)),
     content |-> Substring(Trim(Collapse(doc.body)), 0, ContentCap),
     type |-> page.type, section |-> page.section, timestamp |-> now]

NoIndex == [pages |-> << >>, timestamp |-> -1, baseUrl |-> Empty]

IndexKey_Shared(baseUrl) == <<"search_index_">>

\* `search_index_${baseUrl}`
IndexKey(baseUrl) == <<"search_index_">> \o baseUrl

\* ------------------------------------------------------------ query engine
createSnippetFromText_Wide(content, query) ==
    LET queryIndex == IndexOf(Lower(content), Lower(query))
        start == IF queryIndex - SnippetContext > 0
                 THEN queryIndex - SnippetContext ELSE 0
        reach == queryIndex + Len(query) + SnippetFallback
        end == IF reach < Len(content) THEN reach ELSE Len(content)
    IN  IF queryIndex = -1
        THEN Substring(content, 0, SnippetFallback) \o Ellipsis
        ELSE Trim((IF start > 0 THEN Ellipsis ELSE << >>)
                  \o Substring(content, start, end)
                  \o (IF end < Len(content) THEN Ellipsis ELSE << >>))

\* createSnippetFromText
createSnippetFromText(content, query) ==
    LET queryIndex == IndexOf(Lower(content), Lower(query))
        start == IF queryIndex - SnippetContext > 0
                 THEN queryIndex - SnippetContext ELSE 0
        reach == queryIndex + Len(query) + SnippetContext
        end == IF reach < Len(content) THEN reach ELSE Len(content)
    IN  IF queryIndex = -1
        THEN Substring(content, 0, SnippetFallback) \o Ellipsis
        ELSE Trim((IF start > 0 THEN Ellipsis ELSE << >>)
                  \o Substring(content, start, end)
                  \o (IF end < Len(content) THEN Ellipsis ELSE << >>))

\* page.title.toLowerCase().includes(queryLower)
TitleMatch(title, queryLower) == Includes(Lower(title), queryLower)

ContentMatch(content, queryLower) == Includes(Lower(content), queryLower)

LoopDone_OffByOne(results, maxResults) == Len(results) > maxResults

\* if (results.length >= maxResults) break
LoopDone(results, maxResults) == Len(results) >= maxResults

IsHit_TitleOnly(page, queryLower) == TitleMatch(page.title, queryLower)

\* titleMatch || contentMatch
IsHit(page, queryLower) ==
    TitleMatch(page.title, queryLower)
    \/ ContentMatch(page.content, queryLower)

\* the SearchResult of a hit; pos is history, the place of its page in the
\* index
SearchResult(page, query, pos) ==
    [title |-> page.title, url |-> page.url,
     content |-> createSnippetFromText(page.content, query),
     type |-> page.type, section |-> page.section, pos |-> pos]

\* the for loop of searchDocs over searchIndex.pages, from the i-th page on
RECURSIVE Collect(_, _, _, _, _)
Collect(pages, i, results, query, maxResults) ==
    IF i > Len(pages) \/ LoopDone(results, maxResults) THEN results
    ELSE Collect(pages, i + 1,
                 IF IsHit(pages[i], Lower(query))
                 THEN Append(results, SearchResult(pages[i], query, i))
                 ELSE results,
                 query, maxResults)

Compare_Reversed(a, b, queryLower) ==
    (IF TitleMatch(a.title, queryLower) THEN 1 ELSE 0)
    - (IF TitleMatch(b.title, queryLower) THEN 1 ELSE 0)

\* the comparator of the sort: bTitle - aTitle
Compare(a, b, queryLower) ==
    (IF TitleMatch(b.title, queryLower) THEN 1 ELSE 0)
    - (IF TitleMatch(a.title, queryLower) THEN 1 ELSE 0)

\* x put into a sorted sequence behind every element it does not precede
InsertSorted(sorted, x, queryLower) ==
    LET before == {j \in 1..Len(sorted) : Compare(sorted[j], x, queryLower) > 0}
        k == IF before = {} THEN Len(sorted) + 1
             ELSE CHOOSE j \in before : \A l \in before : j <= l
    IN  SubSeq(sorted, 1, k - 1) \o <<x>> \o SubSeq(sorted, k, Len(sorted))

\* Array.prototype.sort with the comparator: a stable sort
RECURSIVE SortResults(_, _)
SortResults(results, queryLower) ==
    IF results = << >> THEN << >>
    ELSE InsertSorted(SortResults(SubSeq(results, 1, Len(results) - 1),
                                  queryLower),
                      results[Len(results)], queryLower)

\* searchDocs once it has the index
SearchIn(pages, query, maxResults) ==
    SortResults(Collect(pages, 1, << >>, query, maxResults), Lower(query))

EarlyReturn_QueryOnly(query, maxResults) == query = Empty

\* if (!query || maxResults <= 0) return []
EarlyReturn(query, maxResults) == query = Empty \/ maxResults <= 0

\* ------------------------------------------------------------------- calls
\* how a text given to the extractors was made (history), and what they
\* extracted
NoParts == [kind |-> "none", tokens |-> << >>, name |-> Empty, params |-> Empty]
NoMember ==
    [name |-> Empty, returnType |-> Empty, parameters |-> Empty,
     visibility |-> ""]

IdleCall ==
    [op |-> "idle", st |-> "idle", url |-> Empty, result |-> "",
     error |-> Empty, gets |-> Empty, resp |-> NoResp, entry |-> "none",
     baseUrl |-> Empty, pc |-> 0, classes |-> << >>,
     seen |-> << >>, tried |-> << >>,
     query |-> Empty, maxResults |-> 0, stage |-> "", modules |-> << >>,
     files |-> << >>, plan |-> << >>, pages |-> << >>, index |-> NoIndex,
     built |-> FALSE, results |-> << >>,
     content |-> Empty, snippet |-> Empty, related |-> << >>,
     className |-> Empty, picked |-> 0, details |-> "none",
     parts |-> NoParts, member |-> NoMember,
     methods |-> << >>, properties |-> << >>, functions |-> << >>]

\* what the cache holds for u when a call starts (history)
EntryState(u) ==
    IF u \notin DOMAIN cache THEN "none"
    ELSE IF now - cache[u].timestamp >= cacheTimeout THEN "expired"
    ELSE "fresh"

\* fetchPage called by the user: the promise settles with what it got
ResumeFetchPage(call, ok, value) ==
    IF ok
    THEN [call EXCEPT !.st = "done", !.result = value]
    ELSE [call EXCEPT !.st = "failed", !.error = value]

\* history: the fetchPage calls a method made and how each ended
Tried(call, ok) == Append(call.tried, [url |-> call.url, ok |-> ok])

\* the for loop of listClasses moves to the next page, or returns
NextClassPage(call) ==
    IF call.pc < Len(ClassPages)
    THEN [call EXCEPT !.st = "run", !.pc = @ + 1,
                      !.url = PageUrl(call.baseUrl, ClassPages[call.pc + 1])]
    ELSE [call EXCEPT !.st = "done"]

ResumeListClasses_Rethrow(call, ok, value) ==
    IF ok
    THEN NextClassPage([call EXCEPT
            !.classes = ScanPage(@, Load(value), call.baseUrl,
                                 ClassPages[call.pc]),
            !.seen = @ \o Candidates(Load(value), call.baseUrl,
                                     ClassPages[call.pc], "anchors", 1),
            !.tried = Tried(call, ok)])
    ELSE [call EXCEPT !.st = "failed", !.error = value,
                      !.tried = Tried(call, ok)]

\* listClasses after the fetchPage of page pc: scan it, or log the error
ResumeListClasses(call, ok, value) ==
    IF ok
    THEN NextClassPage([call EXCEPT
            !.classes = ScanPage(@, Load(value), call.baseUrl,
                                 ClassPages[call.pc]),
            !.seen = @ \o Candidates(Load(value), call.baseUrl,
                                     ClassPages[call.pc], "anchors", 1),
            !.tried = Tried(call, ok)])
    ELSE NextClassPage([call EXCEPT !.tried = Tried(call, ok)])

\* searchDocs with the index in hand: search it and return
Answer(call, index, built) ==
    [call EXCEPT !.st = "done", !.index = index, !.built = built,
                 !.results = SearchIn(index.pages, call.query, call.maxResults)]

\* getNavigationStructure goes on to listClasses, then to getFiles
ToClasses(call) ==
    IF call.baseUrl = Empty
    THEN [call EXCEPT !.st = "run", !.stage = "files",
                      !.url = PageUrl(call.baseUrl, <<"files.html">>)]
    ELSE [call EXCEPT !.st = "run", !.stage = "classes", !.pc = 1,
                      !.url = PageUrl(call.baseUrl, ClassPages[1])]

NextNavClassPage(call) ==
    IF call.pc < Len(ClassPages)
    THEN [call EXCEPT !.st = "run", !.pc = @ + 1,
                      !.url = PageUrl(call.baseUrl, ClassPages[call.pc + 1])]
    ELSE [call EXCEPT !.st = "run", !.stage = "files",
                      !.url = PageUrl(call.baseUrl, <<"files.html">>)]

\* buildSearchIndex with the structure in hand: the first page to index
ToPages(call, files) ==
    LET plan == PagesToIndex(PageUrl(call.baseUrl, <<"index.html">>),
                             call.classes, files, call.modules)
    IN  [call EXCEPT !.st = "run", !.stage = "pages", !.pc = 1,
                     !.files = files, !.plan = plan, !.url = plan[1].url]

\* the for loop over pagesToIndex moves on, or the index is complete
NextIndexPage(call) ==
    IF call.pc < Len(call.plan)
    THEN [call EXCEPT !.st = "run", !.pc = @ + 1,
                      !.url = call.plan[call.pc + 1].url]
    ELSE Answer(call, [pages |-> call.pages, timestamp |-> now,
                       baseUrl |-> call.baseUrl], TRUE)

IndexedPages_KeepFailed(call, ok, value) ==
    Append(call.pages,
           PageIndex(call.plan[call.pc], Load(IF ok THEN value ELSE "")))

\* pages after the fetchPage of a sampled page: its record is pushed, or
\* the error is swallowed
IndexedPages(call, ok, value) ==
    IF ok
    THEN Append(call.pages, PageIndex(call.plan[call.pc], Load(value)))
    ELSE call.pages

MainPageFailed_Empty(call, value) ==
    [call EXCEPT !.st = "done", !.tried = Tried(call, FALSE)]

\* the fetchPage of index.html in getNavigationStructure threw: nothing
\* catches the error on the way up
MainPageFailed(call, value) ==
    [call EXCEPT !.st = "failed", !.error = value,
                 !.tried = Tried(call, FALSE)]

\* searchDocs after the fetchPage it awaited inside buildSearchIndex
ResumeSearchDocs(call, ok, value) ==
    CASE call.stage = "index" ->
            IF ok
            THEN [call EXCEPT !.st = "run", !.stage = "modules",
                       !.tried = Tried(call, ok),
                       !.url = PageUrl(call.baseUrl, <<"modules.html">>)]
            ELSE MainPageFailed(call, value)
      [] call.stage = "modules" ->
            ToClasses([call EXCEPT
                !.tried = Tried(call, ok),
                !.modules = IF ok THEN ModuleRows(Load(value), 1, call.baseUrl)
                            ELSE << >>])
      [] call.stage = "classes" ->
            NextNavClassPage([call EXCEPT
                !.tried = Tried(call, ok),
                !.classes = IF ok
                            THEN ScanPage(@, Load(value), call.baseUrl,
                                          ClassPages[call.pc])
                            ELSE @])
      [] call.stage = "files" ->
            ToPages([call EXCEPT !.tried = Tried(call, ok)],
                    IF ok THEN FileRows(Load(value), 1, call.baseUrl)
                    ELSE << >>)
      [] call.stage = "pages" ->
            NextIndexPage([call EXCEPT
                !.tried = Tried(call, ok),
                !.pages = IndexedPages(call, ok, value)])

\* navLinks.find("a").each: the related pages among the links from the
\* i-th on
RECURSIVE RelatedPages(_, _, _)
RelatedPages(links, i, baseUrl) ==
    IF i > Len(links) THEN << >>
    ELSE LET href == links[i].href
             text == Trim(links[i].text)
         IN  (IF /\ href # Empty
                 /\ ~StartsWith(href, <<"#">>)
                 /\ ~StartsWith(href, <<"http">>)
                 /\ \/ Includes(Lower(text),
                                <<"r", "e", "l", "a", "t", "e", "d">>)
                    \/ Includes(href, <<"pages">>)
              THEN <<PageUrl(baseUrl, href)>>
              ELSE << >>)
             \o RelatedPages(links, i + 1, baseUrl)

\* getNavigationStructure after getFiles: return structure
NavDone(call, ok, value) ==
    [call EXCEPT !.st = "done", !.tried = Tried(call, ok),
                 !.files = IF ok THEN FileRows(Load(value), 1, call.baseUrl)
                           ELSE << >>]

ResumeNavigation_Strict(call, ok, value) ==
    IF ~ok
    THEN [call EXCEPT !.st = "failed", !.error = value,
                      !.tried = Tried(call, ok)]
    ELSE CASE call.stage = "index" ->
                ResumeSearchDocs(
                    [call EXCEPT !.related =
                        RelatedPages(NavLinks(value), 1, call.baseUrl)],
                    ok, value)
           [] call.stage = "files" -> NavDone(call, ok, value)
           [] OTHER -> ResumeSearchDocs(call, ok, value)

\* getNavigationStructure after an awaited fetchPage: the index page (its
\* failure is not caught), then getModules, listClasses and getFiles, whose
\* failures leave their part empty
ResumeNavigation(call, ok, value) ==
    CASE call.stage = "index" ->
            ResumeSearchDocs(
                [call EXCEPT !.related =
                    IF ok THEN RelatedPages(NavLinks(value), 1, call.baseUrl)
                    ELSE << >>],
                ok, value)
      [] call.stage = "files" -> NavDone(call, ok, value)
      [] OTHER -> ResumeSearchDocs(call, ok, value)

FindClass_First(classes, className) == IF classes = << >> THEN 0 ELSE 1

\* classes.find(c => c.name === className ||
\*                   c.name.toLowerCase() === className.toLowerCase() ||
\*                   c.name.includes(className)): the position of the first
\* class that passes the test, 0 when there is none
FindClass(classes, className) ==
    LET passing == {i \in 1..Len(classes) :
                       \/ classes[i].name = className
                       \/ Lower(classes[i].name) = Lower(className)
                       \/ Includes(classes[i].name, className)}
    IN  IF passing = {} THEN 0
        ELSE CHOOSE i \in passing : \A j \in passing : i <= j

\* getClassDetails with the class list in hand: null when no class is
\* found, else the fetchPage of the page of the class found
SelectClass(call) ==
    LET i == FindClass(call.classes, call.className)
    IN  IF i = 0
        THEN [call EXCEPT !.st = "done", !.details = "null"]
        ELSE [call EXCEPT !.st = "run", !.stage = "page", !.picked = i,
                          !.url = call.classes[i].url]

\* getClassDetails after an awaited fetchPage: inside listClasses the next
\* listing page, then the choice of the class; after the page of the class
\* the details of that class
ResumeClassDetails(call, ok, value) ==
    CASE call.stage = "list" ->
            LET next == [call EXCEPT
                            !.tried = Tried(call, ok),
                            !.classes = IF ok
                                        THEN ScanPage(@, Load(value),
                                                      call.baseUrl,
                                                      ClassPages[call.pc])
                                        ELSE @]
            IN  IF call.pc < Len(ClassPages)
                THEN [next EXCEPT
                        !.st = "run", !.pc = @ + 1,
                        !.url = PageUrl(call.baseUrl, ClassPages[call.pc + 1])]
                ELSE SelectClass(next)
      [] call.stage = "page" ->
            IF ok
            THEN [call EXCEPT
                    !.st = "done", !.tried = Tried(call, ok),
                    !.details = value,
                    !.methods = OfKind(Members(ClassPage(value)), "method"),
                    !.properties =
                        OfKind(Members(ClassPage(value)), "property")]
            ELSE [call EXCEPT !.st = "failed", !.tried = Tried(call, ok),
                              !.error = value]

\* the for loop over functionLinks moves on, or getFunctions returns
NextFunctionLink(call) ==
    IF call.pc < Len(call.plan)
    THEN [call EXCEPT !.st = "run", !.pc = @ + 1,
                      !.url = call.plan[call.pc + 1].url]
    ELSE [call EXCEPT !.st = "done"]

AfterFunctionPage_Rethrow(call, ok, value) ==
    IF ok
    THEN NextFunctionLink([call EXCEPT
            !.tried = Tried(call, ok),
            !.functions = @ \o FunctionOf(value, call.url)])
    ELSE [call EXCEPT !.st = "failed", !.tried = Tried(call, ok),
                      !.error = value]

\* after the fetchPage of the page of a function: its record is pushed, or
\* the error is logged and the link skipped
AfterFunctionPage(call, ok, value) ==
    NextFunctionLink([call EXCEPT
        !.tried = Tried(call, ok),
        !.functions = IF ok THEN @ \o FunctionOf(value, call.url) ELSE @])

\* getFunctions after an awaited fetchPage: after index.html the links to
\* visit, after the page of a function its record
ResumeGetFunctions(call, ok, value) ==
    CASE call.stage = "findex" ->
            IF ~ok
            THEN [call EXCEPT
                    !.st = "failed", !.tried = Tried(call, ok),
                    !.error = <<"Unable to access documentation at ">>
                                  \o call.baseUrl \o <<": ">> \o value]
            ELSE LET links == Slice(FunctionLinks(value), FunctionSample)
                     next == [call EXCEPT
                                !.tried = Tried(call, ok),
                                !.stage = "func", !.pc = 0,
                                !.plan =
                                    [i \in 1..Len(links) |->
                                        [url |-> ResolveHref(call.baseUrl,
                                                             links[i])]]]
                 IN  NextFunctionLink(next)
      [] call.stage = "func" -> AfterFunctionPage(call, ok, value)

\* this.cache.set(cacheKey, { data: functions, timestamp: Date.now() }),
\* when the step from before to after is the one in which getFunctions
\* returns the list it made
FunctionsCacheAfter(c0, before, after) ==
    IF /\ after.op = "getFunctions" /\ after.st = "done"
       /\ before.st # "done" /\ after.stage = "func"
    THEN MapSet(c0, FunctionsKey(after.baseUrl),
                [data |-> after.functions, timestamp |-> now])
    ELSE c0

\* the awaited fetchPage returned (ok) or threw: the rest of the method
Resume(call, ok, value) ==
    CASE call.op = "fetchPage" -> ResumeFetchPage(call, ok, value)
      [] call.op = "listClasses" -> ResumeListClasses(call, ok, value)
      [] call.op = "searchDocs" -> ResumeSearchDocs(call, ok, value)
      [] call.op = "getNavigationStructure" ->
            ResumeNavigation(call, ok, value)
      [] call.op = "getClassDetails" -> ResumeClassDetails(call, ok, value)
      [] call.op = "getFunctions" -> ResumeGetFunctions(call, ok, value)

\* a variant that also stores an index, an empty one, when the build failed
IndexCacheAfter_Failed(before, call) ==
    IF call.op = "searchDocs" /\ before.st # "done"
    THEN IF call.built
         THEN MapSet(searchIndexCache, IndexKey(call.baseUrl), call.index)
         ELSE IF call.st = "failed"
         THEN MapSet(searchIndexCache, IndexKey(call.baseUrl),
                     [pages |-> << >>, timestamp |-> now,
                      baseUrl |-> call.baseUrl])
         ELSE searchIndexCache
    ELSE searchIndexCache

IndexCacheAfter_KeepFirst(before, call) ==
    IF /\ call.op = "searchDocs" /\ call.built /\ before.st # "done"
       /\ IndexKey(call.baseUrl) \notin DOMAIN searchIndexCache
    THEN MapSet(searchIndexCache, IndexKey(call.baseUrl), call.index)
    ELSE searchIndexCache

\* this.searchIndexCache.set(cacheKey, searchIndex), when the step that
\* made call what it is completed an index
IndexCacheAfter(before, call) ==
    IF call.op = "searchDocs" /\ call.built /\ before.st # "done"
    THEN MapSet(searchIndexCache, IndexKey(call.baseUrl), call.index)
    ELSE searchIndexCache

\* history: the step from before to after completed an index build
Built(h, before, after) ==
    IF /\ after.op = "searchDocs" /\ after.built /\ before.st # "done"
       /\ after.baseUrl \in BuildSites
    THEN [h EXCEPT !.idx[after.baseUrl] = [prev |-> @.cur, cur |-> after.index]]
    ELSE h

CallFetch_Burst(call) ==
    IF CacheHit(call.url)
    THEN Resume(call, TRUE, ContentOf(cache[call.url]))
    ELSE [call EXCEPT !.st = "wait",
                      !.gets = Append(Append(@, call.url), call.url)]

\* fetchPage(call.url) up to its await: a fresh entry is returned at once,
\* anything else issues the GET
CallFetch(call) ==
    IF CacheHit(call.url)
    THEN Resume(call, TRUE, ContentOf(cache[call.url]))
    ELSE [call EXCEPT !.st = "wait", !.gets = Append(@, call.url)]

\* history: an operation has been called since the last close()
Started(h) == [h EXCEPT !.closed = "no"]

\* a new call takes the first free slot
FreeSlot(c) ==
    /\ calls[c].st = "idle"
    /\ \A d \in Calls : d < c => calls[d].st # "idle"

StartFetchPage(c, u) ==
    /\ FreeSlot(c)
    /\ calls' = [calls EXCEPT ![c] =
            CallFetch([IdleCall EXCEPT !.op = "fetchPage", !.st = "run",
                          !.url = u, !.entry = EntryState(u)])]
    /\ hist' = Started(hist)
    /\ UNCHANGED <<now, cache, searchIndexCache, server>>

ListBases == {Site, Empty, BadBase}

\* no call is outstanding and no result is waiting to be read
Quiet == \A d \in Calls : calls[d].st = "idle"

\* listClasses called while nothing else runs
StartListClasses(c, baseUrl) ==
    /\ FreeSlot(c)
    /\ Quiet
    /\ calls' = [calls EXCEPT ![c] =
            IF baseUrl = Empty
            THEN [IdleCall EXCEPT !.op = "listClasses", !.st = "done"]
            ELSE CallFetch([IdleCall EXCEPT
                    !.op = "listClasses", !.st = "run", !.baseUrl = baseUrl,
                    !.pc = 1, !.url = PageUrl(baseUrl, ClassPages[1])])]
    /\ hist' = Started(hist)
    /\ UNCHANGED <<now, cache, searchIndexCache, server>>

SearchBases == {Sdk, Empty}
Queries == {Empty, <<"a", "b">>, <<"A", "B">>, <<"b", "b">>, <<"q">>}
MaxResultsTop == 3
MaxResultsRange == (-1)..MaxResultsTop

\* cachedIndex && this.isValidSearchIndex(cachedIndex.timestamp)
IndexHit(baseUrl) ==
    /\ IndexKey(baseUrl) \in DOMAIN searchIndexCache
    /\ isValidSearchIndex(searchIndexCache[IndexKey(baseUrl)].timestamp)

\* searchDocs up to its first await of a GET
BeginSearchDocs(c, baseUrl, query, maxResults) ==
    /\ FreeSlot(c)
    /\ LET call == [IdleCall EXCEPT
                        !.op = "searchDocs", !.st = "run",
                        !.baseUrl = baseUrl, !.query = query,
                        !.maxResults = maxResults]
           new == IF EarlyReturn(query, maxResults)
                  THEN [call EXCEPT !.st = "done"]
                  ELSE IF IndexHit(baseUrl)
                  THEN Answer(call, searchIndexCache[IndexKey(baseUrl)], FALSE)
                  ELSE CallFetch([call EXCEPT
                          !.stage = "index",
                          !.url = PageUrl(baseUrl, <<"index.html">>)])
       IN  /\ calls' = [calls EXCEPT ![c] = new]
           /\ searchIndexCache' = IndexCacheAfter(calls[c], new)
           /\ hist' = Built(Started(hist), calls[c], new)
    /\ UNCHANGED <<now, cache, server>>

\* searchDocs called while nothing else runs
StartSearchDocs(c, baseUrl, query, maxResults) ==
    Quiet /\ BeginSearchDocs(c, baseUrl, query, maxResults)

BuildQuery == <<"a", "b">>

\* the calls that may overlap: the claims on overlapping calls are about
\* two of them
Pair == {1, 2}

\* searchDocs called at any moment, also while the other call is in flight
StartBuild(c, baseUrl) ==
    /\ c \in Pair
    /\ BeginSearchDocs(c, baseUrl, BuildQuery, MaxResultsTop)

\* the index window is long: between calls, time passes in steps of half
\* of it
LongTick ==
    /\ Quiet
    /\ now < MaxTicks * (searchIndexTimeout \div 2)
    /\ now' = now + searchIndexTimeout \div 2
    /\ UNCHANGED <<cache, searchIndexCache, calls, hist, server>>

NavBases == {Sdk, BadBase, Empty}

\* getNavigationStructure up to its first await of a GET, called while
\* nothing else runs
StartNavigation(c, baseUrl) ==
    /\ FreeSlot(c)
    /\ Quiet
    /\ calls' = [calls EXCEPT ![c] =
            CallFetch([IdleCall EXCEPT
                !.op = "getNavigationStructure", !.st = "run",
                !.baseUrl = baseUrl, !.stage = "index",
                !.url = PageUrl(baseUrl, <<"index.html">>)])]
    /\ hist' = Started(hist)
    /\ UNCHANGED <<now, cache, searchIndexCache, server>>

DetailBases == {Api, Empty}

ClassNames ==
    {<<"a", "b">>, <<"A", "B">>, <<"b", "c">>, <<"z">>, <<"a", "b", "c", "d">>,
     Empty}

\* getClassDetails up to its first await of a GET, called while nothing
\* else runs
StartClassDetails(c, baseUrl, className) ==
    /\ FreeSlot(c)
    /\ Quiet
    /\ LET call == [IdleCall EXCEPT
                        !.op = "getClassDetails", !.st = "run",
                        !.baseUrl = baseUrl, !.className = className]
       IN  calls' = [calls EXCEPT ![c] =
                IF baseUrl = Empty THEN SelectClass(call)
                ELSE CallFetch([call EXCEPT
                        !.stage = "list", !.pc = 1,
                        !.url = PageUrl(baseUrl, ClassPages[1])])]
    /\ hist' = Started(hist)
    /\ UNCHANGED <<now, cache, searchIndexCache, server>>

FunctionBases == {Fn, BadBase}

\* cached && this.isValidCache(cached.timestamp), of the functions key
FunctionsHit(baseUrl) ==
    /\ FunctionsKey(baseUrl) \in DOMAIN cache
    /\ isValidCache(cache[FunctionsKey(baseUrl)].timestamp)

\* getFunctions up to its first await of a GET, called while nothing else
\* runs
StartGetFunctions(c, baseUrl) ==
    /\ FreeSlot(c)
    /\ Quiet
    /\ LET call == [IdleCall EXCEPT
                        !.op = "getFunctions", !.st = "run",
                        !.baseUrl = baseUrl]
           new == IF FunctionsHit(baseUrl)
                  THEN [call EXCEPT
                          !.st = "done", !.stage = "cached",
                          !.functions = DataOf(cache[FunctionsKey(baseUrl)])]
                  ELSE CallFetch([call EXCEPT
                          !.stage = "findex",
                          !.url = PageUrl(baseUrl, <<"index.html">>)])
       IN  /\ calls' = [calls EXCEPT ![c] = new]
           /\ cache' = FunctionsCacheAfter(cache, calls[c], new)
    /\ hist' = Started(hist)
    /\ UNCHANGED <<now, searchIndexCache, server>>

\* fetchPage called while nothing else runs
StartFetchAlone(c, u) == Quiet /\ StartFetchPage(c, u)

\* a call resumed after an await reaches its next fetchPage
Step(c) ==
    /\ calls[c].st = "run"
    /\ calls' = [calls EXCEPT ![c] = CallFetch(calls[c])]
    /\ searchIndexCache' = IndexCacheAfter(calls[c], CallFetch(calls[c]))
    /\ hist' = Built(hist, calls[c], CallFetch(calls[c]))
    /\ cache' = FunctionsCacheAfter(cache, calls[c], CallFetch(calls[c]))
    /\ UNCHANGED <<now, server>>

\* history: last[u] is the body of the latest successful GET of u, at[u][b]
\* the time of the latest successful GET of u that delivered b since the
\* last close() (-1: none)
\* idx[s] holds the last two indexes that builds for site s stored since
\* the last close(); closed tells whether close() was the last call made,
\* and then whether a call was in flight at that moment ("busy") or none
\* ("quiet")
NoHist ==
    [last |-> [u \in FetchUrls |-> ""],
     at |-> [u \in FetchUrls |-> [b \in Serves(u) |-> -1]],
     idx |-> [s \in BuildSites |-> [prev |-> NoIndex, cur |-> NoIndex]],
     closed |-> "no"]

Delivered(u, r) ==
    IF r.kind = "ok" /\ u \in FetchUrls
    THEN [hist EXCEPT !.last[u] = r.body, !.at[u][r.body] = now]
    ELSE hist

\* history: the response a user's fetchPage call received
Seen(call, r) == IF call.op = "fetchPage" THEN r ELSE NoResp

\* the response to the GET of a suspended call arrives
Respond(c, r) ==
    /\ calls[c].st = "wait"
    /\ r \in Outcomes(calls[c].url)
    /\ calls' = [calls EXCEPT ![c] =
            IF r.kind = "ok"
            THEN Resume([calls[c] EXCEPT !.resp = Seen(calls[c], r)],
                        TRUE, r.body)
            ELSE Resume([calls[c] EXCEPT !.resp = Seen(calls[c], r)],
                        FALSE, FetchError(calls[c].url, r))]
    /\ cache' = FunctionsCacheAfter(CacheAfter(calls[c].url, r),
                                     calls[c], calls'[c])
    /\ hist' = Built(Delivered(calls[c].url, r), calls[c], calls'[c])
    /\ searchIndexCache' = IndexCacheAfter(calls[c], calls'[c])
    /\ UNCHANGED <<now, server>>

\* the caller drops a settled promise
Retire(c) ==
    /\ calls[c].st \in {"done", "failed"}
    /\ calls' = [calls EXCEPT ![c] = IdleCall]
    /\ UNCHANGED <<now, cache, searchIndexCache, hist, server>>

Tick ==
    /\ now < MaxTicks * TickMs
    /\ now' = now + TickMs
    /\ UNCHANGED <<cache, searchIndexCache, calls, hist, server>>

close_FetchCacheOnly ==
    /\ cache' = << >>
    /\ hist' = [hist EXCEPT
                    !.at = NoHist.at, !.idx = NoHist.idx,
                    !.closed = IF \E c \in Calls : calls[c].st \in {"run", "wait"}
                               THEN "busy" ELSE "quiet"]
    /\ UNCHANGED <<now, calls, searchIndexCache, server>>

close ==
    /\ cache' = << >>
    /\ searchIndexCache' = << >>
    /\ hist' = [hist EXCEPT
                    !.at = NoHist.at, !.idx = NoHist.idx,
                    !.closed = IF \E c \in Calls : calls[c].st \in {"run", "wait"}
                               THEN "busy" ELSE "quiet"]
    /\ UNCHANGED <<now, calls, server>>

\* ------------------------------------------------------------- the server
\* a JSON value of a request, by its type; val holds its text
Undefined == [type |-> "undefined", val |-> Empty]
Str(text) == [type |-> "string", val |-> text]
Num(text) == [type |-> "number", val |-> text]

\* request.params.arguments: absent, or an object of these properties
NoArguments ==
    [given |-> FALSE, baseUrl |-> Undefined, query |-> Undefined,
     path |-> Undefined, className |-> Undefined, maxResults |-> Undefined]

\* z.string().optional()
OptionalString(v) == v.type \in {"undefined", "string"}

\* z.string()
RequiredString(v) == v.type = "string"

\* z.number().default(10)
NumberWithDefault(v) == v.type \in {"undefined", "number"}

\* SchemaX(args) is TRUE when SchemaX.parse(args) returns, FALSE when it
\* throws a ZodError
SearchDocsSchema(args) ==
    /\ args.given
    /\ OptionalString(args.baseUrl)
    /\ RequiredString(args.query)
    /\ NumberWithDefault(args.maxResults)

GetPageContentSchema(args) ==
    /\ args.given
    /\ OptionalString(args.baseUrl)
    /\ RequiredString(args.path)

ListClassesSchema(args) ==
    /\ args.given
    /\ OptionalString(args.baseUrl)

GetClassDetailsSchema(args) ==
    /\ args.given
    /\ OptionalString(args.baseUrl)
    /\ RequiredString(args.className)

\* the cases of the switch
ToolNames ==
    {"search_docs", "get_page_content", "list_classes", "get_class_details"}

ParseArguments(name, args) ==
    CASE name = "search_docs" -> SearchDocsSchema(args)
      [] name = "get_page_content" -> GetPageContentSchema(args)
      [] name = "list_classes" -> ListClassesSchema(args)
      [] name = "get_class_details" -> GetClassDetailsSchema(args)

\* a thrown value: an Error with its message, or another value with what
\* String(error) gives
NoError == [instance |-> FALSE, message |-> Empty, string |-> Empty]
ErrorOf(message) ==
    [instance |-> TRUE, message |-> message, string |-> <<"Error: ">> \o message]
ZodError == ErrorOf(<<"[ zod issues ]">>)
BaseUrlNotProvided ==
    ErrorOf(<<"Base URL not provided. Pass 'baseUrl' in the call or start the MCP server with --baseUrl.">>)
UnknownTool(name) == ErrorOf(<<"Unknown tool: ", name>>)

\* baseUrl ?? this.defaultBaseUrl
ResolvedBaseUrl(baseUrl, defaultBaseUrl) ==
    IF baseUrl.type = "undefined" THEN defaultBaseUrl ELSE baseUrl

\* !resolvedBaseUrl, of undefined or a string
Falsy(v) == v.type = "undefined" \/ v.val = Empty

\* the call of the crawler a case makes
NoInvocation == [method |-> "", baseUrl |-> Empty, argument |-> Undefined]
Invocation(name, args, baseUrl) ==
    CASE name = "search_docs" ->
            [method |-> "searchDocs", baseUrl |-> baseUrl,
             argument |-> args.query]
      [] name = "get_page_content" ->
            [method |-> "getPageContent", baseUrl |-> baseUrl,
             argument |-> args.path]
      [] name = "list_classes" ->
            [method |-> "listClasses", baseUrl |-> baseUrl,
             argument |-> Undefined]
      [] name = "get_class_details" ->
            [method |-> "getClassDetails", baseUrl |-> baseUrl,
             argument |-> args.className]

\* the try block up to its await: it throws, or it calls the crawler
Dispatch(name, args, defaultBaseUrl) ==
    IF name \notin ToolNames
    THEN [throws |-> TRUE, error |-> UnknownTool(name),
          invocation |-> NoInvocation]
    ELSE IF ~ParseArguments(name, args)
    THEN [throws |-> TRUE, error |-> ZodError, invocation |-> NoInvocation]
    ELSE IF Falsy(ResolvedBaseUrl(args.baseUrl, defaultBaseUrl))
    THEN [throws |-> TRUE, error |-> BaseUrlNotProvided,
          invocation |-> NoInvocation]
    ELSE [throws |-> FALSE, error |-> NoError,
          invocation |->
              Invocation(name, args,
                         ResolvedBaseUrl(args.baseUrl, defaultBaseUrl).val)]

\* what the handler's promise settles with: a response, or (threw) a
\* rejection; isError is FALSE for a response without the property
NoResponse == [threw |-> FALSE, isError |-> FALSE, text |-> Empty]

Catch_Rethrow(error) ==
    IF error.instance
    THEN [threw |-> FALSE, isError |-> TRUE,
          text |-> <<"Error: ">> \o error.message]
    ELSE [threw |-> TRUE, isError |-> FALSE, text |-> Empty]

\* the catch block
Catch(error) ==
    [threw |-> FALSE, isError |-> TRUE,
     text |-> <<"Error: ">> \o
                 (IF error.instance THEN error.message ELSE error.string)]

\* the return of a case: the page text as it is, the others as JSON
Success(name, value) ==
    [threw |-> FALSE, isError |-> FALSE,
     text |-> IF name = "get_page_content" THEN value
              ELSE <<"JSON.stringify ">> \o value]

\* how the crawler's promise can settle
NoOutcome == [settled |-> FALSE, ok |-> FALSE, value |-> Empty, error |-> NoError]
CrawlerOutcomes ==
    {[settled |-> TRUE, ok |-> TRUE, value |-> v, error |-> NoError] :
        v \in {Empty, <<"text">>, <<"Error: ", "text">>}}
    \cup
    {[settled |-> TRUE, ok |-> FALSE, value |-> Empty, error |-> e] :
        e \in {ErrorOf(<<"Failed to fetch ">>),
               [instance |-> FALSE, message |-> Empty,
                string |-> <<"thrown value">>]}}

NoServer ==
    [defaultBaseUrl |-> Undefined, st |-> "idle", name |-> "",
     args |-> NoArguments, crawler |-> << >>, outcome |-> NoOutcome,
     response |-> NoResponse]

\* the requests tried
RequestNames == ToolNames \cup {"unknown"}
BaseUrlValues == {Undefined, Str(Empty), Str(Sdk), Num(<<"1">>)}
TextValues == {Undefined, Str(<<"a">>), Num(<<"1">>)}
MaxResultsValues == {Undefined, Num(<<"2">>), Str(<<"2">>)}
RequestArguments ==
    {NoArguments} \cup
    {[given |-> TRUE, baseUrl |-> b, query |-> q, path |-> p,
      className |-> n, maxResults |-> m] :
        b \in BaseUrlValues, q \in TextValues, p \in TextValues,
        n \in TextValues, m \in MaxResultsValues}

\* parseBaseUrlFromArgs: a non-empty string or undefined
DefaultBaseUrls == {Undefined, Str(Sdk), Str(LeanA)}

\* the CallTool handler, up to its await or, when it throws before, its end
CallTool(name, args) ==
    /\ server.st = "idle"
    /\ LET d == Dispatch(name, args, server.defaultBaseUrl)
       IN  server' =
             IF d.throws
             THEN [server EXCEPT !.st = "returned", !.name = name,
                                 !.args = args, !.response = Catch(d.error)]
             ELSE [server EXCEPT !.st = "awaiting", !.name = name,
                                 !.args = args,
                                 !.crawler = Append(@, d.invocation)]
    /\ UNCHANGED <<now, cache, searchIndexCache, calls, hist>>

\* the crawler's promise settles and the handler ends
CrawlerSettles(o) ==
    /\ server.st = "awaiting"
    /\ server' =
         [server EXCEPT !.st = "returned", !.outcome = o,
                        !.response = IF o.ok THEN Success(server.name, o.value)
                                     ELSE Catch(o.error)]
    /\ UNCHANGED <<now, cache, searchIndexCache, calls, hist>>

InitServer ==
    /\ now = 0
    /\ cache = << >>
    /\ searchIndexCache = << >>
    /\ calls = [c \in Calls |-> IdleCall]
    /\ hist = NoHist
    /\ \E d \in DefaultBaseUrls : server = [NoServer EXCEPT !.defaultBaseUrl = d]

NextServer ==
    \/ \E name \in RequestNames, args \in RequestArguments :
          CallTool(name, args)
    \/ \E o \in CrawlerOutcomes : CrawlerSettles(o)

SpecServer == InitServer /\ [][NextServer]_vars

Init ==
    /\ now = 0
    /\ cache = << >>
    /\ searchIndexCache = << >>
    /\ calls = [c \in Calls |-> IdleCall]
    /\ hist = NoHist
    /\ server = NoServer

Next ==
    \/ \E c \in Calls, u \in FetchUrls : StartFetchPage(c, u)
    \/ \E c \in Calls :
        \E r \in Outcomes(calls[c].url) : Respond(c, r)
    \/ \E c \in Calls : Retire(c)
    \/ Tick
    \/ close

Spec == Init /\ [][Next]_vars

NextClasses ==
    \/ \E c \in Calls, b \in ListBases : StartListClasses(c, b)
    \/ \E c \in Calls : Step(c)
    \/ \E c \in Calls :
        \E r \in Outcomes(calls[c].url) : Respond(c, r)
    \/ \E c \in Calls : Retire(c)
    \/ Tick
    \/ close

SpecClasses == Init /\ [][NextClasses]_vars

\* time passes between calls
TickIdle == Quiet /\ Tick

NextSearch ==
    \/ \E c \in Calls, b \in SearchBases, q \in Queries,
          m \in MaxResultsRange : StartSearchDocs(c, b, q, m)
    \/ \E c \in Calls : Step(c)
    \/ \E c \in Calls :
        \E r \in Outcomes(calls[c].url) : Respond(c, r)
    \/ \E c \in Calls : Retire(c)
    \/ TickIdle
    \/ close

SpecSearch == Init /\ [][NextSearch]_vars

NextNav ==
    \/ \E c \in Calls, b \in NavBases : StartNavigation(c, b)
    \/ \E c \in Calls : Step(c)
    \/ \E c \in Calls :
        \E r \in Outcomes(calls[c].url) : Respond(c, r)
    \/ \E c \in Calls : Retire(c)
    \/ TickIdle
    \/ close

SpecNav == Init /\ [][NextNav]_vars

NextSites ==
    \/ \E c \in Calls, b \in BuildSites : StartBuild(c, b)
    \/ \E c \in Calls : Step(c)
    \/ \E c \in Calls :
        \E r \in Outcomes(calls[c].url) : Respond(c, r)
    \/ \E c \in Calls : Retire(c)
    \/ LongTick

SpecSites == Init /\ [][NextSites]_vars

\* fetchPage called at any moment, also while the other call is in flight
StartFetch(c, u) == c \in Pair /\ StartFetchPage(c, u)

NextClose ==
    \/ \E c \in Calls : StartBuild(c, LeanA)
    \/ \E c \in Calls : StartFetch(c, IndexUrl)
    \/ \E c \in Calls : Step(c)
    \/ \E c \in Calls :
        \E r \in Outcomes(calls[c].url) : Respond(c, r)
    \/ \E c \in Calls : Retire(c)
    \/ close

SpecClose == Init /\ [][NextClose]_vars

NextSample ==
    \/ \E c \in Calls : StartSearchDocs(c, Big, BuildQuery, MaxResultsTop)
    \/ \E c \in Calls : Step(c)
    \/ \E c \in Calls :
        \E r \in Outcomes(calls[c].url) : Respond(c, r)
    \/ \E c \in Calls : Retire(c)

SpecSample == Init /\ [][NextSample]_vars

NextBuilds ==
    \/ \E c \in Calls : StartBuild(c, LeanA)
    \/ \E c \in Calls : Step(c)
    \/ \E c \in Calls :
        \E r \in Outcomes(calls[c].url) : Respond(c, r)
    \/ \E c \in Calls : Retire(c)
    \/ LongTick
    \/ close

SpecBuilds == Init /\ [][NextBuilds]_vars

\* searches of one site one after another, over more than an index window
NextRetry ==
    \/ \E c \in Calls : StartSearchDocs(c, Sdk, BuildQuery, MaxResultsTop)
    \/ \E c \in Calls : Step(c)
    \/ \E c \in Calls :
        \E r \in Outcomes(calls[c].url) : Respond(c, r)
    \/ \E c \in Calls : Retire(c)
    \/ LongTick

SpecRetry == Init /\ [][NextRetry]_vars

NextDetails ==
    \/ \E c \in Calls, b \in DetailBases, n \in ClassNames :
          StartClassDetails(c, b, n)
    \/ \E c \in Calls : Step(c)
    \/ \E c \in Calls :
        \E r \in Outcomes(calls[c].url) : Respond(c, r)
    \/ \E c \in Calls : Retire(c)
    \/ TickIdle
    \/ close

SpecDetails == Init /\ [][NextDetails]_vars

\* getFunctions, and fetchPage of the main page and of the text of the
\* functions key, one call at a time
FunctionFetches == {PageUrl(Fn, <<"index.html">>), FunctionsKey(Fn)}

NextFunctions ==
    \/ \E c \in Calls, b \in FunctionBases : StartGetFunctions(c, b)
    \/ \E c \in Calls, u \in FunctionFetches : StartFetchAlone(c, u)
    \/ \E c \in Calls : Step(c)
    \/ \E c \in Calls :
        \E r \in Outcomes(calls[c].url) : Respond(c, r)
    \/ \E c \in Calls : Retire(c)
    \/ TickIdle

SpecFunctions == Init /\ [][NextFunctions]_vars

\* getClassDetails of a class the site lists, at one time of the clock
NextMembers ==
    \/ \E c \in Calls, n \in {<<"a", "b">>, <<"A", "B">>, <<"b", "c">>} :
          StartClassDetails(c, Api, n)
    \/ \E c \in Calls : Step(c)
    \/ \E c \in Calls :
        \E r \in Outcomes(calls[c].url) : Respond(c, r)
    \/ \E c \in Calls : Retire(c)

SpecMembers == Init /\ [][NextMembers]_vars

\* ------------------------------------------------- snippets of any body
\* n times the character ch
Repeat(ch, n) == [i \in 1..n |-> ch]

\* the letters a, b, a, b, ... : a query of n characters
Letters(n) == [i \in 1..n |-> IF i % 2 = 1 THEN "a" ELSE "b"]

\* what stands in the body where the query could match
Shout(query) == [i \in 1..Len(query) |-> IF query[i] = "a" THEN "A" ELSE "B"]

Middles(query) ==
    {query, <<" ">> \o Shout(query) \o <<" ">>, <<" ", "c", " ">>}

Paddings ==
    {0, 1, SnippetContext - 1, SnippetContext, SnippetContext + 1,
     5 * SnippetContext}

\* the bodies an index can hold: the text of a page with its white space
\* collapsed (no text here has two spaces in a row), trimmed and capped
Bodies(query) ==
    {Substring(Trim(Repeat("x", before) \o mid \o Repeat("y", after)),
               0, ContentCap) :
        before \in Paddings, after \in Paddings, mid \in Middles(query)}

InitSnippet ==
    /\ now = 0
    /\ cache = << >>
    /\ searchIndexCache = << >>
    /\ hist = NoHist
    /\ server = NoServer
    /\ \E n \in 1..MaxQueryLen : \E body \in Bodies(Letters(n)) :
          calls = [c \in Calls |->
                     IF c = 1
                     THEN [IdleCall EXCEPT
                             !.op = "createSnippetFromText", !.st = "run",
                             !.query = Letters(n), !.content = body]
                     ELSE IdleCall]

\* searchDocs makes the snippet of a hit
Snip(c) ==
    /\ calls[c].op = "createSnippetFromText"
    /\ calls[c].st = "run"
    /\ calls' = [calls EXCEPT ![c] =
            [@ EXCEPT !.st = "done",
                      !.snippet = createSnippetFromText(calls[c].content,
                                                       calls[c].query)]]
    /\ UNCHANGED <<now, cache, searchIndexCache, hist, server>>

NextSnippet == \E c \in Calls : Snip(c)

SpecSnippet == InitSnippet /\ [][NextSnippet]_vars

\* the texts the extractors are tried on: type tokens, white space, a name
\* and a parenthesised parameter text, and texts of other shapes
TypeTokens == {<<"i", "n", "t">>, <<"c", "*">>}
Gaps == {<<" ">>, <<" ", " ">>, <<"\n">>}
MethodNames == {<<"f">>, <<"g", "_", "1">>}
ParameterTexts ==
    {Empty, <<"a">>, <<"i", "n", "t", " ", "a", ",", " ", "b">>,
     <<"a", ",", "\n", "b">>}

TokenLists ==
    {<< >>} \cup {<<t>> : t \in TypeTokens}
            \cup {<<t, u>> : t \in TypeTokens, u \in TypeTokens}

\* the tokens, each followed by the gap
RECURSIVE Spaced(_, _)
Spaced(tokens, gap) ==
    IF tokens = << >> THEN Empty
    ELSE tokens[1] \o gap \o Spaced(Tail(tokens), gap)

OtherTexts ==
    {Empty, <<"x", " ", "y">>, <<"(", "a", ")">>, <<"*", "(", "a", ")">>,
     <<"x", ")", "(">>, <<" ">>}

\* texts made of one to three words, some of them visibility words, alone
\* or before a prototype, and one with a visibility word inside a word
Words == {Private, Protected, Public, <<"i", "n", "t">>}
WordLists ==
    {<<w>> : w \in Words} \cup {<<w, v>> : w \in Words, v \in Words}
        \cup {<<Public, w, v>> : w \in Words, v \in Words}
WordTexts ==
    {[text |-> Spaced(ws, <<" ">>) \o tail,
      parts |-> [NoParts EXCEPT !.kind = "words", !.tokens = ws]] :
        ws \in WordLists, tail \in {Empty, <<"f", "(", ")">>}}
    \cup
    {[text |-> <<"x">> \o Private \o <<"s", " ", "y">>,
      parts |-> [NoParts EXCEPT !.kind = "words",
                                !.tokens = <<<<"x">> \o Private \o <<"s">>>>]]}

Prototypes ==
    {[text |-> Spaced(ts, gap) \o n \o <<"(">> \o ps \o <<")">>,
      parts |-> [kind |-> "prototype", tokens |-> ts, name |-> n,
                 params |-> ps]] :
        ts \in TokenLists, gap \in Gaps, n \in MethodNames,
        ps \in ParameterTexts}
    \cup
    {[text |-> t, parts |-> [NoParts EXCEPT !.kind = "other"]] :
        t \in OtherTexts}
    \cup WordTexts

InitExtract ==
    /\ now = 0
    /\ cache = << >>
    /\ searchIndexCache = << >>
    /\ hist = NoHist
    /\ server = NoServer
    /\ \E x \in Prototypes :
          calls = [c \in Calls |->
                     IF c = 1
                     THEN [IdleCall EXCEPT
                             !.op = "extract", !.st = "run",
                             !.content = x.text, !.parts = x.parts]
                     ELSE IdleCall]

\* getClassDetails makes a method of the text of a prototype
Extract(c) ==
    /\ calls[c].op = "extract"
    /\ calls[c].st = "run"
    /\ calls' = [calls EXCEPT ![c] =
            [@ EXCEPT !.st = "done",
                      !.member =
                          [name |-> extractMethodName(calls[c].content),
                           returnType |-> extractReturnType(calls[c].content),
                           parameters |-> extractParameters(calls[c].content),
                           visibility |->
                               extractVisibility(calls[c].content)]]]
    /\ UNCHANGED <<now, cache, searchIndexCache, hist, server>>

NextExtract == \E c \in Calls : Extract(c)

SpecExtract == InitExtract /\ [][NextExtract]_vars

\* ------------------------------------------------------------ fetch claims
IsFetchStart(c, u) ==
    /\ calls[c].st = "idle"
    /\ calls'[c].op = "fetchPage"
    /\ calls'[c].url = u

\* a GET of u delivered b less than cacheTimeout ago, no close() since
StoredRecently(u, b) ==
    hist.at[u][b] >= 0 /\ now - hist.at[u][b] < cacheTimeout

\* C1 as stated: a fetchPage(u) called less than 5 minutes after a
\* fetchPage(u) that succeeded and stored body b, with no close() in
\* between, issues no GET and returns b.
C1_ReturnsFirstBody ==
    [][\A c \in Calls, u \in FetchUrls : IsFetchStart(c, u) =>
          \A b \in Serves(u) : StoredRecently(u, b) =>
              /\ calls'[c].st = "done"
              /\ calls'[c].gets = Empty
              /\ calls'[c].result = b]_vars

\* C1 amended: such a call issues no GET and returns the body that the
\* latest successful GET of u stored.
C1_ReturnsLatestBody ==
    [][\A c \in Calls, u \in FetchUrls : IsFetchStart(c, u) =>
          ((\E b \in Serves(u) : StoredRecently(u, b)) =>
              /\ calls'[c].st = "done"
              /\ calls'[c].gets = Empty
              /\ calls'[c].result = hist.last[u])]_vars

\* a call answered from the cache
C1_Witness ==
    \E c \in Calls :
        /\ calls[c].op = "fetchPage" /\ calls[c].st = "done"
        /\ calls[c].entry = "fresh" /\ calls[c].gets = Empty
        /\ calls[c].result = hist.last[calls[c].url]
        /\ StoredRecently(calls[c].url, calls[c].result)

\* C2: a fetchPage(u) that finds no entry for u, or one at least 5 minutes
\* old, issues a GET of u and returns nothing from the cache; when the GET
\* succeeds the entry for u becomes the delivered body with the time of
\* the completion as its timestamp.
C2_MissRefetches ==
    [][\A c \in Calls :
          /\ \A u \in FetchUrls :
                (IsFetchStart(c, u) /\ EntryState(u) # "fresh") =>
                    /\ calls'[c].st = "wait"
                    /\ calls'[c].gets = <<u>>
                    /\ cache' = cache
          /\ (/\ calls[c].op = "fetchPage" /\ calls[c].st = "wait"
              /\ calls'[c].st = "done") =>
                    /\ calls'[c].result = hist'.last[calls[c].url]
                    /\ cache'[calls[c].url] =
                          [content |-> calls'[c].result, timestamp |-> now']
                    /\ \A k \in DOMAIN cache \ {calls[c].url} :
                          k \in DOMAIN cache' /\ cache'[k] = cache[k]]_vars

\* an expired entry was replaced by a refetch
C2_Witness ==
    \E c \in Calls :
        /\ calls[c].op = "fetchPage" /\ calls[c].st = "done"
        /\ calls[c].entry = "expired" /\ calls[c].gets = <<calls[c].url>>
        /\ cache[calls[c].url] =
              [content |-> calls[c].result, timestamp |-> now]
        /\ now >= cacheTimeout

\* C3: a fetchPage whose GET gets a non-success status, or cannot complete,
\* rejects with a message that starts with "Failed to fetch" and carries
\* the status and reason (or the cause), and leaves the cache as it was.
C3_FailureKeepsCache ==
    [][\A c \in Calls :
          (/\ calls[c].op = "fetchPage" /\ calls[c].st = "wait"
           /\ calls'[c].st # "wait" /\ calls'[c].resp.kind # "ok") =>
              /\ calls'[c].st = "failed"
              /\ StartsWith(calls'[c].error, <<"Failed to fetch ">>)
              /\ Includes(calls'[c].error, calls'[c].resp.reason)
              /\ calls'[c].resp.kind = "http" =>
                    Includes(calls'[c].error, <<calls'[c].resp.status>>)
              /\ cache' = cache]_vars

\* a GET answered 404 while the cache held an entry
C3_Witness ==
    \E c \in Calls :
        /\ calls[c].op = "fetchPage" /\ calls[c].st = "failed"
        /\ calls[c].resp.kind = "http"
        /\ calls[c].url \in DOMAIN cache

\* ------------------------------------------------------ listClasses claims
\* the candidates that are the first of their name
FirstOfName(seen) ==
    {i \in 1..Len(seen) : \A j \in 1..(i - 1) : seen[j].name # seen[i].name}

\* C9: the classes a listClasses call has collected never hold a name
\* twice, and they are, in order and unchanged, the first candidate of
\* every name in the order annotated, classes, hierarchy, the anchors of
\* a page before its definition lists.
C9_FirstFoundWins ==
    \A c \in Calls : calls[c].op = "listClasses" =>
        LET classes == calls[c].classes
            seen == calls[c].seen
            first == FirstOfName(seen)
        IN  /\ \A i, j \in 1..Len(classes) :
                  i # j => classes[i].name # classes[j].name
            /\ Len(classes) = Cardinality(first)
            /\ \A i \in first :
                  classes[Cardinality({j \in first : j <= i})] = seen[i]

\* a name met again on the same page, on a later page and in a definition
\* list, and an entry that only the definition-list scan finds
C9_Witness ==
    \E c \in Calls :
        /\ calls[c].op = "listClasses" /\ calls[c].st = "done"
        /\ \E i, j \in 1..Len(calls[c].seen) :
              /\ i < j
              /\ calls[c].seen[i].name = calls[c].seen[j].name
              /\ calls[c].seen[i].section # calls[c].seen[j].section
              /\ calls[c].seen[i].url # calls[c].seen[j].url
        /\ \E i, j \in 1..Len(calls[c].seen) :
              /\ i < j
              /\ calls[c].seen[i].name = calls[c].seen[j].name
              /\ calls[c].seen[i].section = calls[c].seen[j].section
              /\ calls[c].seen[j].description = <<"dd Foo">>
        /\ \E k \in 1..Len(calls[c].classes) :
              calls[c].classes[k].description = <<"dd BarFoo">>

\* C10: listClasses never rejects; with an empty address it returns no
\* class and calls no fetchPage; otherwise it calls fetchPage for the three
\* listing pages in order, one at a time, whatever the earlier ones did,
\* and returns no class when all three failed.
C10_ListClassesNeverFails ==
    \A c \in Calls : calls[c].op = "listClasses" =>
        LET call == calls[c]
            n == Len(call.tried)
        IN  /\ call.st # "failed"
            /\ call.baseUrl = Empty =>
                  /\ call.st = "done" /\ call.classes = << >>
                  /\ call.tried = << >> /\ call.gets = << >>
            /\ call.baseUrl # Empty =>
                  /\ n <= Len(ClassPages)
                  /\ \A i \in 1..n :
                        call.tried[i].url = PageUrl(call.baseUrl, ClassPages[i])
                  /\ call.st = "done" <=> n = Len(ClassPages)
                  /\ call.st # "done" =>
                        call.url = PageUrl(call.baseUrl, ClassPages[n + 1])
                  /\ (\A i \in 1..n : ~call.tried[i].ok) => call.classes = << >>

\* all three listing pages failed and the call returned an empty list
C10_Witness ==
    \E c \in Calls :
        /\ calls[c].op = "listClasses" /\ calls[c].st = "done"
        /\ calls[c].baseUrl = Site
        /\ Len(calls[c].tried) = 3
        /\ \A i \in 1..3 : ~calls[c].tried[i].ok
        /\ calls[c].classes = << >>

\* ------------------------------------------------------- searchDocs claims
\* text contains query as a substring, letter case apart
ContainsCI(text, query) ==
    \E i \in 0..(Len(text) - Len(query)) :
        \A k \in 1..Len(query) : LowerChar(text[i + k]) = LowerChar(query[k])

Searched(c) == calls[c].op = "searchDocs" /\ calls[c].st = "done"

\* the places in the index of call c of the pages that match its query
Matching(c) ==
    {i \in 1..Len(calls[c].index.pages) :
        \/ ContainsCI(calls[c].index.pages[i].title, calls[c].query)
        \/ ContainsCI(calls[c].index.pages[i].content, calls[c].query)}

\* the first maxResults of them
FirstMatching(c) ==
    {i \in Matching(c) :
        Cardinality({j \in Matching(c) : j <= i}) <= calls[c].maxResults}

\* C4: searchDocs with an empty query or with maxResults <= 0 returns an
\* empty sequence at once: it reads no index, calls no fetchPage, issues
\* no GET and leaves both caches as they are.
C4_EarlyReturnTouchesNothing ==
    [][\A c \in Calls :
          (/\ calls[c].st = "idle" /\ calls'[c].op = "searchDocs"
           /\ (calls'[c].query = Empty \/ calls'[c].maxResults <= 0)) =>
              /\ calls'[c].st = "done"
              /\ calls'[c].results = << >>
              /\ calls'[c].index = NoIndex
              /\ calls'[c].tried = << >>
              /\ calls'[c].gets = << >>
              /\ cache' = cache
              /\ searchIndexCache' = searchIndexCache]_vars

\* a search for a query with maxResults <= 0 while an index of the site
\* with matching pages is cached and the fetch cache is not empty
C4_Witness ==
    \E c \in Calls :
        /\ Searched(c)
        /\ calls[c].query # Empty /\ calls[c].maxResults <= 0
        /\ calls[c].results = << >>
        /\ IndexKey(calls[c].baseUrl) \in DOMAIN searchIndexCache
        /\ searchIndexCache[IndexKey(calls[c].baseUrl)].pages # << >>
        /\ DOMAIN cache # {}

C6_TitleMatchesFirst ==
    \A c \in Calls : Searched(c) =>
        \A i, j \in 1..Len(calls[c].results) : i < j =>
            LET a == calls[c].results[i]
                b == calls[c].results[j]
                aTitle == ContainsCI(a.title, calls[c].query)
                bTitle == ContainsCI(b.title, calls[c].query)
            IN  /\ bTitle => aTitle
                /\ (aTitle <=> bTitle) => a.pos < b.pos

\* the sort moved a title match in front of an earlier body match, and two
\* body matches kept their order
C6_Witness ==
    \E c \in Calls :
        /\ Searched(c)
        /\ \E i, j \in 1..Len(calls[c].results) :
              /\ i < j
              /\ calls[c].results[i].pos > calls[c].results[j].pos
        /\ \E i, j \in 1..Len(calls[c].results) :
              /\ i < j
              /\ ~ContainsCI(calls[c].results[i].title, calls[c].query)
              /\ ~ContainsCI(calls[c].results[j].title, calls[c].query)

\* C7: the result holds one entry for each of the first maxResults pages of
\* the index, in index order, whose title or body contains the query, an
\* entry made of that page, and nothing else.
C7_FirstMatchesInIndexOrder ==
    \A c \in Calls :
        (Searched(c) /\ calls[c].query # Empty /\ calls[c].maxResults > 0) =>
            /\ Len(calls[c].results) = Cardinality(FirstMatching(c))
            /\ {calls[c].results[k].pos : k \in 1..Len(calls[c].results)}
                  = FirstMatching(c)
            /\ \A k \in 1..Len(calls[c].results) :
                  LET r == calls[c].results[k]
                      page == calls[c].index.pages[r.pos]
                  IN  /\ r.title = page.title /\ r.url = page.url
                      /\ r.type = page.type /\ r.section = page.section

\* a page whose title matches lies behind the maxResults-th hit and is left
\* out, while a body-only match before it is returned
C7_Witness ==
    \E c \in Calls :
        /\ Searched(c) /\ calls[c].maxResults > 0
        /\ \E i \in Matching(c) \ FirstMatching(c) :
              ContainsCI(calls[c].index.pages[i].title, calls[c].query)
        /\ \E k \in 1..Len(calls[c].results) :
              ~ContainsCI(calls[c].results[k].title, calls[c].query)
        /\ Cardinality(Matching(c)) < Len(calls[c].index.pages)

\* ---------------------------------------------------------- snippet claims
Snipped(c) == calls[c].op = "createSnippetFromText" /\ calls[c].st = "done"

\* the largest length the claim allows
ClaimedSnippetMax == SnippetFallback + 4

\* C8 as stated: every snippet has at most 204 characters.
C8_SnippetAtMost204 ==
    \A c \in Calls : Snipped(c) => Len(calls[c].snippet) <= ClaimedSnippetMax

\* C8 amended: a snippet of a body that contains the query has at most 100
\* characters of context on each side of the match, the match and two
\* ellipses, that is length(query) + 206 characters; a snippet of a body
\* that does not contain it (a hit by title) has at most 200 + 3.
C8_SnippetBound ==
    \A c \in Calls : Snipped(c) =>
        IF ContainsCI(calls[c].content, calls[c].query)
        THEN Len(calls[c].snippet) <=
                Len(calls[c].query) + 2 * SnippetContext + 2 * Len(Ellipsis)
        ELSE Len(calls[c].snippet) <= SnippetFallback + Len(Ellipsis)

\* a snippet of a query of more than a few characters, cut at both ends of
\* an 800-character body, that has the full length(query) + 206 characters
C8_Witness ==
    \E c \in Calls :
        /\ Snipped(c)
        /\ Len(calls[c].content) = ContentCap
        /\ Len(calls[c].query) > 4
        /\ ContainsCI(calls[c].content, calls[c].query)
        /\ Len(calls[c].snippet) =
              Len(calls[c].query) + 2 * SnippetContext + 2 * Len(Ellipsis)

\* ------------------------------------------- getNavigationStructure claims
Navigated(c) == calls[c].op = "getNavigationStructure"

\* the fetchPage calls of getModules, listClasses and getFiles
NavParts(baseUrl) ==
    <<PageUrl(baseUrl, <<"modules.html">>)>>
    \o (IF baseUrl = Empty THEN << >>
        ELSE [i \in 1..Len(ClassPages) |-> PageUrl(baseUrl, ClassPages[i])])
    \o <<PageUrl(baseUrl, <<"files.html">>)>>

\* C11: getNavigationStructure rejects exactly when its fetchPage of
\* index.html failed, and then it has called no other fetchPage; when that
\* fetch succeeded it goes through modules, class listings and files
\* whatever fails there and returns a structure whose failed parts are empty.
C11_FailsOnlyOnIndexPage ==
    \A c \in Calls : Navigated(c) =>
        LET call == calls[c]
            n == Len(call.tried)
            parts == NavParts(call.baseUrl)
        IN  /\ n >= 1 => call.tried[1].url =
                            PageUrl(call.baseUrl, <<"index.html">>)
            /\ call.st = "failed" <=> (n >= 1 /\ ~call.tried[1].ok)
            /\ call.st = "failed" =>
                  /\ n = 1
                  /\ StartsWith(call.error, <<"Failed to fetch ">>)
                  /\ \A i \in 1..Len(call.gets) : call.gets[i] = call.tried[1].url
            /\ call.st = "done" =>
                  /\ n = 1 + Len(parts)
                  /\ \A i \in 1..Len(parts) : call.tried[i + 1].url = parts[i]
                  /\ ~call.tried[2].ok => call.modules = << >>
                  /\ ~call.tried[n].ok => call.files = << >>
                  /\ (\A i \in 3..(n - 1) : ~call.tried[i].ok) =>
                        call.classes = << >>

\* a structure returned although modules, every class listing and files
\* failed, with related pages found on the index page
C11_Witness ==
    \E c \in Calls :
        /\ Navigated(c) /\ calls[c].st = "done"
        /\ calls[c].baseUrl = Sdk
        /\ \A i \in 2..Len(calls[c].tried) : ~calls[c].tried[i].ok
        /\ calls[c].modules = << >> /\ calls[c].classes = << >>
        /\ calls[c].files = << >>
        /\ Len(calls[c].related) = 2

\* ---------------------------------------------------- getClassDetails claims
Detailed(c) ==
    calls[c].op = "getClassDetails" /\ calls[c].st \in {"done", "failed"}

\* the listed classes whose name is the requested one
ExactMatches(c) ==
    {i \in 1..Len(calls[c].classes) :
        calls[c].classes[i].name = calls[c].className}

\* the listed classes whose name is the requested one, letter case apart
SameLetters(c) ==
    {i \in 1..Len(calls[c].classes) :
        LET name == calls[c].classes[i].name
        IN  /\ Len(name) = Len(calls[c].className)
            /\ \A k \in 1..Len(name) :
                  LowerChar(name[k]) = LowerChar(calls[c].className[k])}

\* the listed classes whose name contains the requested one
Containing(c) ==
    {i \in 1..Len(calls[c].classes) :
        \E at \in 0..(Len(calls[c].classes[i].name) - Len(calls[c].className)) :
            \A k \in 1..Len(calls[c].className) :
                calls[c].classes[i].name[at + k] = calls[c].className[k]}

\* the pages a listClasses of the site fetches
ListingUrls(baseUrl) ==
    {PageUrl(baseUrl, ClassPages[i]) : i \in 1..Len(ClassPages)}

\* C12: a getClassDetails call for a name that no listed class has, has
\* letter case apart, or contains, returns null, raises no error and has
\* called fetchPage for listing pages only.
C12_NoMatchGivesNull ==
    \A c \in Calls :
        (Detailed(c)
         /\ ExactMatches(c) \cup SameLetters(c) \cup Containing(c) = {}) =>
            /\ calls[c].st = "done"
            /\ calls[c].details = "null"
            /\ \A i \in 1..Len(calls[c].tried) :
                  calls[c].tried[i].url \in ListingUrls(calls[c].baseUrl)

\* a listing with classes, none of which matches the name
C12_Witness ==
    \E c \in Calls :
        /\ Detailed(c)
        /\ Len(calls[c].classes) >= 2
        /\ calls[c].className = <<"z">>
        /\ calls[c].details = "null"

\* C13: when a listed class has exactly the requested name, that class is
\* the one getClassDetails selects, wherever it stands in the listing.
C13_ExactMatchPreferred ==
    \A c \in Calls :
        (Detailed(c) /\ ExactMatches(c) # {}) =>
            calls[c].picked \in ExactMatches(c)

\* ------------------------------------------------------ index build claims
\* call c starts as a searchDocs for site that goes as far as the index
IsSearchStart(c, site) ==
    /\ calls[c].st = "idle"
    /\ calls'[c].op = "searchDocs"
    /\ calls'[c].baseUrl = site
    /\ ~(calls'[c].query = Empty \/ calls'[c].maxResults <= 0)

\* a build stored index less than 30 minutes ago, no close() since
InWindow(index) ==
    index.timestamp >= 0 /\ now - index.timestamp < searchIndexTimeout

\* every entry of the fetch cache is at least 5 minutes old
AllPagesStale ==
    \A u \in DOMAIN cache : now - cache[u].timestamp >= cacheTimeout

\* C14 as stated: a searchDocs called less than 30 minutes after a build for
\* the site stored its index issues no GET and is answered from the pages
\* of that build.
C14_ServesFirstBuild ==
    [][\A c \in Calls, site \in BuildSites : IsSearchStart(c, site) =>
          \A index \in {hist.idx[site].prev, hist.idx[site].cur} :
              InWindow(index) =>
                  /\ calls'[c].st = "done"
                  /\ calls'[c].gets = << >>
                  /\ calls'[c].tried = << >>
                  /\ calls'[c].index.pages = index.pages]_vars

\* C14 amended: such a call issues no GET and is answered from the pages of
\* the index that the latest completed build for the site stored; it builds
\* nothing and leaves both caches as they are.
C14_ServesLatestBuild ==
    [][\A c \in Calls, site \in BuildSites :
          (IsSearchStart(c, site) /\ InWindow(hist.idx[site].cur)) =>
              /\ calls'[c].st = "done"
              /\ calls'[c].gets = << >>
              /\ calls'[c].tried = << >>
              /\ ~calls'[c].built
              /\ calls'[c].index.pages = hist.idx[site].cur.pages
              /\ cache' = cache
              /\ searchIndexCache' = searchIndexCache]_vars

\* a search answered from an index built 15 minutes earlier, when every
\* cached page has expired
C14_Witness ==
    \E c \in Calls :
        /\ Searched(c) /\ ~calls[c].built
        /\ calls[c].baseUrl = LeanA
        /\ calls[c].index = hist.idx[LeanA].cur
        /\ calls[c].index.pages # << >>
        /\ calls[c].gets = << >>
        /\ now - calls[c].index.timestamp >= cacheTimeout
        /\ DOMAIN cache # {} /\ AllPagesStale

\* the fetchPage calls of call c for the sampled pages: the last ones it made
SampleTried(c) ==
    SubSeq(calls[c].tried, Len(calls[c].tried) - Len(calls[c].plan) + 1,
           Len(calls[c].tried))

\* the sampled pages of call c whose fetch succeeded
Fetched(c) == {i \in 1..Len(calls[c].plan) : SampleTried(c)[i].ok}

\* a searchDocs that has built its index: the records are those of the
\* sampled pages that were fetched, one each, in the order of the sample
OmitsFailedPages(c) ==
    (Searched(c) /\ calls[c].built) =>
        /\ \A i \in 1..Len(calls[c].plan) :
              SampleTried(c)[i].url = calls[c].plan[i].url
        /\ Len(calls[c].index.pages) = Cardinality(Fetched(c))
        /\ \A i \in Fetched(c) :
              LET record ==
                    calls[c].index.pages[Cardinality({j \in Fetched(c) : j <= i})]
              IN  /\ record.url = calls[c].plan[i].url
                  /\ record.type = calls[c].plan[i].type
                  /\ record.section = calls[c].plan[i].section

\* C15 as stated: no searchDocs fails in its index build, whatever fetches
\* fail, and the index built holds a record for exactly the sampled pages
\* that were fetched.
C15_BuildNeverFails ==
    \A c \in Calls : calls[c].op = "searchDocs" =>
        calls[c].st # "failed" /\ OmitsFailedPages(c)

\* C15 amended: the build fails only when the fetch of index.html for the
\* navigation structure failed; once that page is fetched no failure makes
\* it fail, and the index built holds a record for exactly the sampled
\* pages that were fetched.
C15_BuildOmitsFailedPages ==
    \A c \in Calls : calls[c].op = "searchDocs" =>
        /\ calls[c].st = "failed" =>
              /\ Len(calls[c].tried) = 1
              /\ ~calls[c].tried[1].ok
              /\ calls[c].tried[1].url =
                    PageUrl(calls[c].baseUrl, <<"index.html">>)
        /\ OmitsFailedPages(c)

\* an index of five sampled pages built although the main page and another
\* page failed in the loop
C15_Witness ==
    \E c \in Calls :
        /\ Searched(c) /\ calls[c].built
        /\ Len(calls[c].plan) = 5
        /\ 1 \notin Fetched(c)
        /\ Cardinality(Fetched(c)) = 3
        /\ \E i \in 1..(Len(calls[c].tried) - 5) : ~calls[c].tried[i].ok

\* C16: a searchDocs that passed the early return, found no fresh index and
\* could not fetch index.html rejects with the fetch error and returns no
\* result.
C16_UnreachableMainPageRejects ==
    \A c \in Calls :
        (/\ calls[c].op = "searchDocs"
         /\ calls[c].tried # << >>
         /\ ~calls[c].tried[1].ok) =>
            /\ calls[c].query # Empty /\ calls[c].maxResults > 0
            /\ calls[c].tried[1].url =
                  PageUrl(calls[c].baseUrl, <<"index.html">>)
            /\ calls[c].st = "failed"
            /\ StartsWith(calls[c].error,
                          <<"Failed to fetch ">> \o calls[c].tried[1].url)
            /\ calls[c].results = << >>
            /\ ~calls[c].built
            /\ calls[c].index = NoIndex

\* a search of a site whose index.html is not fetched, after the clock has
\* advanced
C16_Witness ==
    \E c \in Calls :
        /\ calls[c].op = "searchDocs" /\ calls[c].st = "failed"
        /\ calls[c].baseUrl = Sdk
        /\ calls[c].query # Empty /\ calls[c].maxResults > 0
        /\ Len(calls[c].tried) = 1
        /\ calls[c].gets = <<PageUrl(Sdk, <<"index.html">>)>>
        /\ now > 0

\* the first n elements of seq, or all of them when there are fewer
FirstOf(seq, n) == [i \in 1..(IF Len(seq) < n THEN Len(seq) ELSE n) |-> seq[i]]

\* the addresses of the pages an index of the structure of call c samples
Sampled(c) ==
    LET urls(seq) == [i \in 1..Len(seq) |-> seq[i].url]
    IN  <<PageUrl(calls[c].baseUrl, <<"index.html">>)>>
        \o urls(FirstOf(calls[c].classes, ClassSample))
        \o urls(FirstOf(calls[c].files, FileSample))
        \o urls(FirstOf(calls[c].modules, ModuleSample))

\* C17: the records of an index are records of the main page, the first 5
\* classes, the first 3 files and the first 2 modules of the structure, in
\* that order and at most one for each, so there are at most 11; the
\* build fetches no other page of the site for its index.
C17_IndexHoldsSampleOnly ==
    /\ \A c \in Calls : (Searched(c) /\ calls[c].built) =>
          LET pages == calls[c].index.pages
              place(u) == CHOOSE i \in 1..Len(Sampled(c)) : Sampled(c)[i] = u
          IN  /\ Len(pages) <= 1 + ClassSample + FileSample + ModuleSample
              /\ \A i \in 1..Len(pages) :
                    \E k \in 1..Len(Sampled(c)) : Sampled(c)[k] = pages[i].url
              /\ \A i, j \in 1..Len(pages) :
                    i < j => place(pages[i].url) < place(pages[j].url)
              /\ [i \in 1..Len(SampleTried(c)) |-> SampleTried(c)[i].url]
                    = Sampled(c)
    /\ \A k \in DOMAIN searchIndexCache :
          Len(searchIndexCache[k].pages)
              <= 1 + ClassSample + FileSample + ModuleSample

\* an index of 11 records of a site with 6 classes, 4 files and 3 modules
C17_Witness ==
    \E c \in Calls :
        /\ Searched(c) /\ calls[c].built
        /\ Len(calls[c].classes) > ClassSample
        /\ Len(calls[c].files) > FileSample
        /\ Len(calls[c].modules) > ModuleSample
        /\ Len(calls[c].index.pages) = 1 + ClassSample + FileSample + ModuleSample

\* ------------------------------------------------------------- close claims
\* call c starts as a fetchPage, or as a searchDocs that goes as far as
\* the index
IsCallStart(c) ==
    /\ calls[c].st = "idle"
    /\ \/ calls'[c].op = "fetchPage"
       \/ /\ calls'[c].op = "searchDocs"
          /\ ~(calls'[c].query = Empty \/ calls'[c].maxResults <= 0)

\* the call has issued a GET for the page it needs first
GoesToNetwork(c) ==
    /\ calls'[c].st = "wait"
    /\ calls'[c].gets = <<calls'[c].url>>

CompletesBuild(c) ==
    /\ calls[c].st # "done"
    /\ calls'[c].op = "searchDocs" /\ calls'[c].st = "done" /\ calls'[c].built

\* C19: the index cache holds one index at most for a site, under the key
\* of that site, and it is an index that a build for that site stored and
\* that records that site; a completed build puts its index in the place
\* of the one the cache held for its site and touches no other; a search
\* is answered from an index of its own site.
C19_OneIndexPerSite ==
    /\ [](\A k \in DOMAIN searchIndexCache :
            /\ \E site \in BuildSites :
                  /\ k = <<"search_index_">> \o site
                  /\ searchIndexCache[k].baseUrl = site
                  /\ searchIndexCache[k] \in
                        {hist.idx[site].prev, hist.idx[site].cur}
            /\ \A j \in DOMAIN searchIndexCache :
                  searchIndexCache[j].baseUrl = searchIndexCache[k].baseUrl
                      => j = k)
    /\ [](\A c \in Calls : Searched(c) =>
            /\ calls[c].index.baseUrl = calls[c].baseUrl
            /\ \A i \in 1..Len(calls[c].results) :
                  \E n \in 1..Len(calls[c].index.pages) :
                      calls[c].index.pages[n].url = calls[c].results[i].url
            /\ \A n \in 1..Len(calls[c].index.pages) :
                  calls[c].index.pages[n].url =
                      calls[c].baseUrl \o <<"/", "index.html">>)
    /\ [][\A c \in Calls : CompletesBuild(c) =>
            LET key == <<"search_index_">> \o calls'[c].baseUrl
            IN  /\ key \in DOMAIN searchIndexCache'
                /\ searchIndexCache'[key] = calls'[c].index
                /\ \A k \in DOMAIN searchIndexCache \ {key} :
                      /\ k \in DOMAIN searchIndexCache'
                      /\ searchIndexCache'[k] = searchIndexCache[k]
                /\ DOMAIN searchIndexCache' \subseteq
                      DOMAIN searchIndexCache \cup {key}]_vars

\* both sites have an index in the cache, the one of the first site put in
\* the place of an earlier one with another page, and a search of the
\* second site has returned a record
C19_Witness ==
    /\ IndexKey(LeanA) \in DOMAIN searchIndexCache
    /\ IndexKey(LeanB) \in DOMAIN searchIndexCache
    /\ hist.idx[LeanA].prev # NoIndex
    /\ hist.idx[LeanA].prev.pages[1].title # hist.idx[LeanA].cur.pages[1].title
    /\ \E c \in Calls :
          Searched(c) /\ calls[c].baseUrl = LeanB /\ calls[c].results # << >>

\* ------------------------------------------------------------ server claims
\* the tool call has ended
Handled == server.st = "returned"

\* the answer is an error response with the standard text
ErrorResponse ==
    /\ server.response.isError
    /\ StartsWith(server.response.text, <<"Error: ">>)

\* the arguments are not what the tool's schema asks for
InvalidArguments ==
    LET a == server.args
        text(v) == v.type = "string"
    IN  \/ ~a.given
        \/ a.baseUrl.type \notin {"undefined", "string"}
        \/ server.name = "search_docs" /\ ~text(a.query)
        \/ server.name = "search_docs"
              /\ a.maxResults.type \notin {"undefined", "number"}
        \/ server.name = "get_page_content" /\ ~text(a.path)
        \/ server.name = "get_class_details" /\ ~text(a.className)

\* no baseUrl in the call and none given when the server started
MissingBaseUrl ==
    /\ server.args.baseUrl.type = "undefined"
    /\ server.defaultBaseUrl.type = "undefined"

\* C20: a tool call always ends with a response; a call of an unknown
\* tool, with arguments its schema refuses, without a baseUrl on a server
\* without a default one, or whose crawler call raised, ends with isError
\* true and a text that starts with "Error: "; the first and the third end
\* without a call of the crawler.
C20_HandlerAlwaysAnswers ==
    /\ ~server.response.threw
    /\ Handled =>
          /\ server.name \notin ToolNames => ErrorResponse /\ server.crawler = << >>
          /\ server.name \in ToolNames /\ InvalidArguments => ErrorResponse
          /\ MissingBaseUrl => ErrorResponse /\ server.crawler = << >>
          /\ server.outcome.settled /\ ~server.outcome.ok => ErrorResponse

\* a call whose crawler call raised a value that is no Error has ended
C20_Witness ==
    /\ Handled
    /\ server.name \in ToolNames
    /\ server.crawler # << >>
    /\ server.outcome.settled /\ ~server.outcome.ok
    /\ ~server.outcome.error.instance
    /\ ErrorResponse

\* ------------------------------------------------------ build order claims
\* the fetchPage calls of the sample loop that have ended are those of the
\* pages before the one the loop is at, in the order of the sample
EarlierPagesEnded(call) ==
    LET k == call.pc - 1
        n == Len(call.tried)
    IN  /\ n >= k
        /\ \A i \in 1..k : call.tried[n - k + i].url = call.plan[i].url

\* C21: a searchDocs call issues its GETs one at a time: a step adds one
\* GET at most, only while the call is not waiting for a response, and the
\* call then waits for that GET; the wait ends with the end, good or bad,
\* of that fetch; the GET of a sampled page is issued after the fetches of
\* all sampled pages before it have ended.
C21_BuildFetchesOneAtATime ==
    [][\A c \in Calls : calls'[c].op = "searchDocs" =>
          LET before == calls[c]
              after == calls'[c]
          IN  /\ \/ after.gets = before.gets
                 \/ /\ after.gets = Append(before.gets, after.url)
                    /\ before.st # "wait"
                    /\ after.st = "wait"
                    /\ after.stage = "pages" => EarlierPagesEnded(after)
              /\ before.st = "wait" /\ after # before =>
                    /\ after.tried # << >>
                    /\ after.tried[Len(after.tried)].url = before.url
                    /\ Len(after.tried) = Len(before.tried) + 1]_vars

\* a build waits for the GET of its fourth sampled page after one of the
\* pages before it failed
C21_Witness ==
    \E c \in Calls :
        /\ calls[c].op = "searchDocs" /\ calls[c].st = "wait"
        /\ calls[c].stage = "pages" /\ calls[c].pc >= 4
        /\ Len(calls[c].gets) >= 6
        /\ \E i \in 1..Len(calls[c].tried) :
              /\ ~calls[c].tried[i].ok
              /\ calls[c].tried[i].url = calls[c].plan[2].url

\* C22: searchDocs calls of one site that overlap each build an index; a
\* call of them rejects only when its own fetch of index.html failed, and
\* otherwise returns records of the pages it fetched itself; every build
\* that completes writes its index over the one in the cache, so that the
\* cache holds the index of the build that completed last.
C22_RacingBuildsBothAnswer ==
    /\ [](\A c \in Calls : calls[c].op = "searchDocs" =>
            /\ calls[c].st = "failed" =>
                  /\ calls[c].tried # << >>
                  /\ calls[c].tried[Len(calls[c].tried)] =
                        [url |-> PageUrl(calls[c].baseUrl, <<"index.html">>),
                         ok |-> FALSE]
            /\ Searched(c) /\ calls[c].built =>
                  /\ calls[c].index.pages = calls[c].pages
                  /\ \A i \in 1..Len(calls[c].results) :
                        \E n \in 1..Len(calls[c].pages) :
                            /\ calls[c].pages[n].url = calls[c].results[i].url
                            /\ calls[c].pages[n].title =
                                  calls[c].results[i].title)
    /\ [](IndexKey(LeanA) \in DOMAIN searchIndexCache =>
            searchIndexCache[IndexKey(LeanA)] = hist.idx[LeanA].cur)
    /\ [][\A c \in Calls : CompletesBuild(c) =>
            /\ IndexKey(calls'[c].baseUrl) \in DOMAIN searchIndexCache'
            /\ searchIndexCache'[IndexKey(calls'[c].baseUrl)] =
                  calls'[c].index]_vars

\* two calls have each built an index of the site, with different pages,
\* the second completed inside the window of the first; both have returned
\* a record and the cache holds the index of the second
C22_Witness ==
    \E c \in Calls, d \in Calls :
        /\ c # d
        /\ Searched(c) /\ calls[c].built /\ calls[c].results # << >>
        /\ Searched(d) /\ calls[d].built /\ calls[d].results # << >>
        /\ calls[c].baseUrl = LeanA /\ calls[d].baseUrl = LeanA
        /\ calls[c].index # calls[d].index
        /\ hist.idx[LeanA] = [prev |-> calls[c].index, cur |-> calls[d].index]
        /\ isValidSearchIndex(calls[c].index.timestamp)
        /\ calls[d].index.timestamp - calls[c].index.timestamp
              < searchIndexTimeout
        /\ IndexKey(LeanA) \in DOMAIN searchIndexCache
        /\ searchIndexCache[IndexKey(LeanA)] = calls[d].index

\* ------------------------------------------------------- extraction claims
Extracted(c) == calls[c].op = "extract" /\ calls[c].st = "done"

\* C24: of a text made of type tokens, a name and a parenthesised parameter
\* text, the name extracted is that name, the return type the tokens joined
\* by single spaces, or "void" without tokens, and the parameters the
\* parameter text as it is; of a text without a name before a parenthesis
\* the name is "unknown" and the parameters are empty.
C24_PrototypeParts ==
    \A c \in Calls : Extracted(c) =>
        LET x == calls[c].parts
            m == calls[c].member
        IN  /\ x.kind = "prototype" =>
                  /\ m.name = x.name
                  /\ m.returnType =
                        (IF x.tokens = << >> THEN Void
                         ELSE JoinSpaces(x.tokens))
                  /\ m.parameters = x.params
            /\ x.kind = "other" =>
                  m.name = Unknown /\ m.parameters = Empty

\* the text was made with the word w
MadeWith(c, w) ==
    \E i \in 1..Len(calls[c].parts.tokens) : calls[c].parts.tokens[i] = w

\* C25: the visibility extracted from a text is "private" when the text
\* contains "private", whatever else it contains; otherwise "protected"
\* when it contains "protected"; otherwise "public"; it is one of the three.
C25_VisibilityByPrecedence ==
    \A c \in Calls : Extracted(c) =>
        LET v == calls[c].member.visibility
            text == calls[c].content
        IN  /\ v \in {"private", "protected", "public"}
            /\ Includes(text, Private) => v = "private"
            /\ ~Includes(text, Private) /\ Includes(text, Protected) =>
                  v = "protected"
            /\ ~Includes(text, Private) /\ ~Includes(text, Protected) =>
                  v = "public"
            /\ MadeWith(c, Private) => v = "private"
            /\ calls[c].parts.kind = "prototype" => v = "public"

\* a text made of "public", "protected" and "private", in this order, gave
\* "private"
C25_Witness ==
    \E c \in Calls :
        /\ Extracted(c)
        /\ calls[c].parts.tokens = <<Public, Protected, Private>>
        /\ calls[c].member.visibility = "private"

\* ---------------------------------------------------- class member claims
\* getClassDetails returned the details of a class
Described(c) ==
    /\ calls[c].op = "getClassDetails" /\ calls[c].st = "done"
    /\ calls[c].details # "null"

\* the entries of list with this name
Named(list, name) == {n \in 1..Len(list) : list[n].name = name}

\* C26: the methods and properties that getClassDetails returns come from
\* the first 15 .memitem blocks and the first 10 member list elements of
\* the page, so that together they are 25 at most; a member that one of
\* these blocks and one of these elements both give is returned twice.
C26_MembersCappedNotDeduplicated ==
    \A c \in Calls : Described(c) =>
        LET page == ClassPage(calls[c].details)
            blocks == 1..(IF Len(page.memitems) < 15 THEN Len(page.memitems)
                          ELSE 15)
            elements == 1..(IF Len(page.decls) < 10 THEN Len(page.decls)
                            ELSE 10)
            all == calls[c].methods \o calls[c].properties
        IN  /\ Len(calls[c].methods) + Len(calls[c].properties) <= 25
            /\ \A n \in 1..Len(all) :
                  \/ \E i \in blocks :
                        all[n].description = Trim(page.memitems[i].doc)
                  \/ \E j \in elements :
                        all[n].description = Trim(page.decls[j].next)
            /\ \A i \in blocks, j \in elements :
                  LET b == FromBlock(page.memitems[i])
                      e == FromElement(page.decls[j])
                      list == IF b[1].kind = "method" THEN calls[c].methods
                              ELSE calls[c].properties
                  IN  /\ b # << >> /\ e # << >>
                      /\ b[1].kind = e[1].kind /\ b[1].name = e[1].name
                      => Cardinality(Named(list, b[1].name)) >= 2

\* the details of a class whose page has 17 blocks and 12 elements: 25
\* members, the method "ma" once from its block and once from the list
C26_Witness ==
    \E c \in Calls :
        /\ Described(c)
        /\ Len(ClassPage(calls[c].details).memitems) > 15
        /\ Len(ClassPage(calls[c].details).decls) > 10
        /\ Len(calls[c].methods) + Len(calls[c].properties) = 25
        /\ \E m \in Named(calls[c].methods, <<"m", "a">>),
              n \in Named(calls[c].methods, <<"m", "a">>) :
              /\ calls[c].methods[m].description = <<"doc ", "a">>
              /\ calls[c].methods[n].description = <<"brief ", "b">>

\* --------------------------------------------------------- function claims
\* the step is the start of a getFunctions call in slot c
IsFunctionsStart(c) ==
    calls[c].op = "idle" /\ calls'[c].op = "getFunctions"

\* the step ends the getFunctions call of slot c
EndsFunctions(c) ==
    /\ calls[c].op = "getFunctions" /\ calls[c].st \in {"run", "wait"}
    /\ calls'[c].st \in {"done", "failed"}

\* the entry of the functions key, if there is one
FunctionsEntry(map, baseUrl) ==
    IF FunctionsKey(baseUrl) \in DOMAIN map
    THEN <<map[FunctionsKey(baseUrl)]>> ELSE << >>

\* C23: getFunctions rejects exactly when its fetch of index.html failed,
\* and then leaves the functions entry of the cache as it was; otherwise it
\* fetches the pages of the first three function links at most, in their
\* order, returns a function only for pages whose fetch succeeded, three at
\* most, and stores the list it returns with the time; a call made less
\* than five minutes after that returns the stored list without a GET.
C23_FunctionsListedAndCached ==
    /\ [](\A c \in Calls : calls[c].op = "getFunctions" =>
            LET call == calls[c]
                main == [url |-> PageUrl(call.baseUrl, <<"index.html">>),
                         ok |-> FALSE]
            IN  /\ call.st = "failed" <=> call.tried = <<main>>
                /\ call.st = "done" /\ call.stage = "func" =>
                      /\ Len(call.plan) <= 3
                      /\ Len(call.tried) = Len(call.plan) + 1
                      /\ call.tried[1] = [main EXCEPT !.ok = TRUE]
                      /\ \A i \in 1..Len(call.plan) :
                            call.tried[i + 1].url = call.plan[i].url
                      /\ Len(call.functions) <= 3
                      /\ \A n \in 1..Len(call.functions) :
                            \E i \in 1..Len(call.plan) :
                                /\ call.tried[i + 1].ok
                                /\ call.plan[i].url = call.functions[n].url)
    /\ [][\A c \in Calls :
            /\ EndsFunctions(c) =>
                  FunctionsEntry(cache', calls[c].baseUrl) =
                      IF calls'[c].st = "failed"
                      THEN FunctionsEntry(cache, calls[c].baseUrl)
                      ELSE <<[data |-> calls'[c].functions,
                              timestamp |-> now]>>
            /\ IsFunctionsStart(c) =>
                  LET key == <<"functions_">> \o calls'[c].baseUrl
                  IN  IF key \in DOMAIN cache
                         /\ now - cache[key].timestamp < 5 * 60 * 1000
                      THEN /\ calls'[c].st = "done"
                           /\ calls'[c].gets = << >>
                           /\ calls'[c].functions = cache[key].data
                           /\ cache' = cache
                      ELSE /\ calls'[c].stage # "cached"
                           /\ calls'[c].st = "done" =>
                                 calls'[c].gets = << >>]_vars

\* a call answered from the cache some time after the list was stored: two
\* functions, of three pages visited of which one failed
C23_Witness ==
    \E c \in Calls :
        /\ calls[c].op = "getFunctions" /\ calls[c].st = "done"
        /\ calls[c].stage = "cached" /\ calls[c].gets = << >>
        /\ Len(calls[c].functions) = 2
        /\ FunctionsKey(Fn) \in DOMAIN cache
        /\ cache[FunctionsKey(Fn)].data = calls[c].functions
        /\ now > cache[FunctionsKey(Fn)].timestamp

\* C28: a fetchPage(u) call that resolves returns a body that a GET of u
\* delivered: the body of its own response when it made a GET, and when it
\* made none a body that the address u serves (so never something that
\* getFunctions put in the cache under its own key).
C28_FetchReturnsDeliveredBody ==
    \A c \in Calls : calls[c].op = "fetchPage" /\ calls[c].st = "done" =>
        /\ calls[c].result \in Serves(calls[c].url)
        /\ calls[c].gets # << >> =>
              calls[c].resp.kind = "ok" /\ calls[c].result = calls[c].resp.body

\* ------------------------------------------------------ close and in flight
\* C27: while no operation has been called since the last close(), both
\* caches are empty: a fetch or an index build that was in flight at the
\* close() stores nothing afterwards.
C27_NothingStoredAfterClose ==
    hist.closed # "no" => (cache = << >> /\ searchIndexCache = << >>)

\* ------------------------------------------------------- concurrent fetches
\* fetchPage call d is suspended at its GET of u
FetchInFlight(d, u) ==
    calls[d].op = "fetchPage" /\ calls[d].st = "wait" /\ calls[d].url = u

\* C29: a fetchPage(u) called while another fetchPage(u) is in flight and
\* no fresh entry for u exists issues a GET of its own; a fetchPage that
\* made a GET returns the body of its own response and leaves the entry for
\* u with that body and the time of its completion, whatever the other
\* call stored before; the timestamp of an entry never decreases.
C29_ConcurrentFetchesNotCoalesced ==
    [][/\ \A c \in Calls, u \in FetchUrls :
             (/\ IsFetchStart(c, u) /\ ~CacheHit(u)
              /\ \E d \in Calls \ {c} : FetchInFlight(d, u)) =>
                 /\ calls'[c].st = "wait"
                 /\ calls'[c].gets = <<u>>
                 /\ \A d \in Calls \ {c} : calls'[d] = calls[d]
       /\ \A c \in Calls, u \in FetchUrls :
             (FetchInFlight(c, u) /\ calls'[c].st = "done") =>
                 /\ calls'[c].resp.kind = "ok"
                 /\ calls'[c].result = calls'[c].resp.body
                 /\ cache'[u] = [content |-> calls'[c].result,
                                 timestamp |-> now']
                 /\ \A d \in Calls \ {c} : calls'[d] = calls[d]
       /\ \A u \in DOMAIN cache \cap DOMAIN cache' :
             cache'[u].timestamp >= cache[u].timestamp]_vars

\* two fetches of one URL that both found no entry made a GET each and got
\* different bodies at different times since the last close(); the entry
\* holds the body and the time of the later one
C29_Witness ==
    \E c, d \in Calls :
        /\ c # d /\ calls[c].url = calls[d].url
        /\ \A e \in {c, d} :
              /\ calls[e].op = "fetchPage" /\ calls[e].st = "done"
              /\ calls[e].entry = "none"
              /\ calls[e].gets = <<calls[e].url>>
              /\ calls[e].result = calls[e].resp.body
              /\ hist.at[calls[e].url][calls[e].result] >= 0
        /\ calls[c].result # calls[d].result
        /\ hist.at[calls[c].url][calls[c].result]
              < hist.at[calls[d].url][calls[d].result]
        /\ cache[calls[d].url] =
              [content |-> calls[d].result,
               timestamp |-> hist.at[calls[d].url][calls[d].result]]

\* ---------------------------------------------------------- failed builds
\* the step makes the searchDocs call c reject
FailsSearch(c) ==
    /\ calls[c].op = "searchDocs" /\ calls[c].st # "failed"
    /\ calls'[c].st = "failed"

\* the index cache holds an index for site that is less than 30 minutes old
FreshIndex(site) ==
    /\ IndexKey(site) \in DOMAIN searchIndexCache
    /\ now - searchIndexCache[IndexKey(site)].timestamp < searchIndexTimeout

\* C30: with the searches of a site made one after another, a searchDocs
\* rejects only because its fetch of index.html failed, and the step that
\* makes it reject leaves the index cache as it was, with no index or an
\* expired one for the site; a searchDocs that finds no index younger than
\* 30 minutes fetches index.html again, and once that page is fetched it
\* does not reject; the index cache changes only when a build completes,
\* and then the entry for the site is the index built, which records the
\* sampled pages that were fetched and no other; a searchDocs that finds
\* an index younger than 30 minutes issues no GET and is answered from it.
C30_FailedBuildNotCached ==
    [][\A c \in Calls :
          /\ FailsSearch(c) =>
                /\ searchIndexCache' = searchIndexCache
                /\ ~FreshIndex(calls[c].baseUrl)
                /\ calls'[c].tried =
                      <<[url |-> PageUrl(calls[c].baseUrl, <<"index.html">>),
                         ok |-> FALSE]>>
          /\ (IsSearchStart(c, Sdk) /\ ~FreshIndex(Sdk)) =>
                /\ calls'[c].st = "wait"
                /\ calls'[c].gets = <<PageUrl(Sdk, <<"index.html">>)>>
          /\ (IsSearchStart(c, Sdk) /\ FreshIndex(Sdk)) =>
                /\ calls'[c].st = "done" /\ ~calls'[c].built
                /\ calls'[c].gets = << >> /\ calls'[c].tried = << >>
                /\ calls'[c].index = searchIndexCache[IndexKey(Sdk)]
          /\ (calls'[c].op = "searchDocs" /\ calls'[c].tried # << >>
               /\ calls'[c].tried[1].ok) => calls'[c].st # "failed"
          /\ CompletesBuild(c) =>
                /\ searchIndexCache'[IndexKey(calls'[c].baseUrl)] =
                      calls'[c].index
                /\ calls'[c].index.timestamp = now'
                /\ Len(calls'[c].index.pages) =
                      Cardinality({i \in 1..Len(calls'[c].plan) :
                          calls'[c].tried[Len(calls'[c].tried)
                              - Len(calls'[c].plan) + i].ok})
          /\ searchIndexCache' # searchIndexCache =>
                \E d \in Calls : CompletesBuild(d)]_vars

\* a search rejects 30 minutes after a build whose index lacks sampled
\* pages that failed: that index, expired, is still the entry of the site
C30_Witness ==
    \E c \in Calls :
        /\ calls[c].op = "searchDocs" /\ calls[c].st = "failed"
        /\ calls[c].baseUrl = Sdk
        /\ calls[c].gets = <<PageUrl(Sdk, <<"index.html">>)>>
        /\ IndexKey(Sdk) \in DOMAIN searchIndexCache
        /\ ~FreshIndex(Sdk)
        /\ Len(searchIndexCache[IndexKey(Sdk)].pages) \in 1..4

====
